---- MODULE Spec2Model ----
(***************************************************************************)
(* FocusOS calendar: the task store (App.projects), the CalendarPlan       *)
(* component state, the Auto-Scheduler (handleAutoSchedule and its 800 ms  *)
(* timer callback), drag-to-schedule, drag-to-unschedule and the resize    *)
(* effect.  Time is counted in minutes: an instant is day*1440 + minute    *)
(* of day, and day d falls on weekday d % 7 (0 = Sunday).                  *)
(***************************************************************************)
EXTENDS Integers, Sequences, FiniteSets, TLC

VARIABLES
    projects,             \* App: useState<Project[]>
    viewMode,             \* CalendarPlan: 'DAY' | 'WEEK' | 'MONTH'
    currentDate,          \* CalendarPlan: the date the view is anchored at
    isAutoScheduling,     \* CalendarPlan: busy flag of the Auto Schedule button
    pending,              \* setTimeout callbacks not yet run, oldest first
    occupied,             \* the occupied map of the latest timer callback
    runLog,               \* the runs that have completed: inputs and updates
    resizingTask,         \* CalendarPlan: the resize drag in progress
    currentResizeHeight,  \* CalendarPlan: candidate height of the drag
    mouseY,               \* pointer position (clientY)
    lastResize,           \* the latest resize commit: start height, delta, minutes
    steps,                \* number of user gestures so far
    view,                 \* App: the view renderContent mounts
    instance,             \* number of CalendarPlan mounts so far
    lastDrop,             \* the latest drop: target, payload, cell, outcome
    iteratingTasks,       \* Planner: ids of the tasks with a breakdown in flight
    requests,             \* suggestSubtasks calls awaiting their answer
    made,                 \* number of ids handed out by crypto.randomUUID
    lastCall,             \* the latest Planner operation and its arguments
    stats,                \* what calculateProjectStats returned at the last render
    timerState,           \* App: the hoisted timer state
    activeContextProject, \* App: the project the focus view shows
    activeContextSubtask, \* App: the task the focus view shows, or NoTask
    history,              \* App: the focus sessions, newest first
    timeLeft,             \* FocusTimer: seconds shown on the dial
    now,                  \* Date.now(), in seconds
    connectedApps,        \* CalendarPlan: names of the connected providers
    isConnecting,         \* IntegrationsModal: the provider being connected
    connectTimers,        \* setTimeout callbacks of handleConnectProvider not yet run
    sidebar               \* the sidebar counters and list sizes of the last render

vars == <<projects, viewMode, currentDate, isAutoScheduling, pending, occupied,
          runLog, resizingTask, currentResizeHeight, mouseY, lastResize, steps,
          view, instance, lastDrop, iteratingTasks, requests, made, lastCall, stats,
          timerState, activeContextProject, activeContextSubtask, history, timeLeft,
          now, connectedApps, isConnecting, connectTimers, sidebar>>

----------------------------------------------------------------------------
(* Bounds of the model *)

MaxSteps == 1
MaxRuns == 2
Today == 7
MountMinute == 600
MaxMounts == 2
MaxLeaves == 40
LeafMinutes == 25
MaxCalls == 3
SuggestedMinutes == 15
SuggestedCounts == {0, 1}
TickSeconds == 300
MaxNow == 1201
MaxHistory == 2
MaxConnects == 3

StageEstSet == {0, 660}
TaskEstSet == {20, 480}
BookedEstSet == {15, 20, 480, 660}
DropHours == {9, 10, 23}
DropOffsets == {0}
PointerYs == {0, 22, 30, 400}

----------------------------------------------------------------------------
(* Program constants *)

START_HOUR == 9
END_HOUR == 17
SlotStep == 15
MinDuration == 15
MinutesPerDay == 1440
DaysPerWeek == 7
DaysInMonth == 28     \* the calendar of the model is February 2026 (day 0 = Sunday 1 Feb)
MinRenderHeight == 30
MinHeight == 15
SnapStep == 15

Undefined == 0        \* scheduledDate absent; the code only tests truthiness
NullHeight == 0       \* currentResizeHeight null; the code only tests truthiness
NoHour == 0 - 1       \* hour argument of handleDrop absent (month view)
Null == 0             \* startTime / endTime null; the code only tests truthiness
DefaultMinutes == 25  \* length of a session without a usable estimate
NoResize == [projectId |-> "", taskId |-> "", startY |-> 0, startHeight |-> 0]

Max(a, b) == IF a >= b THEN a ELSE b
Min(a, b) == IF a <= b THEN a ELSE b

----------------------------------------------------------------------------
(* Date helpers *)

dayOf(date) == date \div MinutesPerDay
minuteOfDay(date) == date % MinutesPerDay

toDateString(date) == dayOf(date)

setHours(date, hour, min) == dayOf(date) * MinutesPerDay + hour * 60 + min

getStartOfWeek(date) == (dayOf(date) - (dayOf(date) % DaysPerWeek)) * MinutesPerDay

addDays(date, days) == date + days * MinutesPerDay

isSameDay(d1, d2) == dayOf(d1) = dayOf(d2)

----------------------------------------------------------------------------
(* Task trees *)

Merge(t, updates) ==
    [f \in DOMAIN t |-> IF f \in DOMAIN updates THEN updates[f] ELSE t[f]]

RECURSIVE flattenTasks(_)
flattenTasks(subtasks) ==
    IF subtasks = <<>> THEN <<>>
    ELSE LET task == Head(subtasks)
         IN  <<task>>
             \o (IF Len(task.subtasks) > 0 THEN flattenTasks(task.subtasks) ELSE <<>>)
             \o flattenTasks(Tail(subtasks))

RECURSIVE bulkUpdateTaskInTree(_, _, _)
bulkUpdateTaskInTree(tasks, taskId, updates) ==
    [i \in 1..Len(tasks) |->
        IF tasks[i].id = taskId THEN Merge(tasks[i], updates)
        ELSE [tasks[i] EXCEPT
                !.subtasks = bulkUpdateTaskInTree(tasks[i].subtasks, taskId, updates)]]

RECURSIVE recursiveUpdate(_, _, _)
recursiveUpdate(tasks, targetId, updates) ==
    [i \in 1..Len(tasks) |->
        IF tasks[i].id = targetId THEN Merge(tasks[i], updates)
        ELSE [tasks[i] EXCEPT
                !.subtasks = recursiveUpdate(tasks[i].subtasks, targetId, updates)]]

\* variant: the project test is inverted
handleUpdateTaskOtherProjects(prev, projectId, taskId, updates) ==
    [i \in 1..Len(prev) |->
        IF prev[i].id = projectId THEN prev[i]
        ELSE [prev[i] EXCEPT
                !.subtasks = recursiveUpdate(prev[i].subtasks, taskId, updates)]]

handleUpdateTask(prev, projectId, taskId, updates) ==
    [i \in 1..Len(prev) |->
        IF prev[i].id # projectId THEN prev[i]
        ELSE [prev[i] EXCEPT
                !.subtasks = recursiveUpdate(prev[i].subtasks, taskId, updates)]]

\* variant: the update is applied in every project
handleScheduleTaskAnyProject(prev, projectId, taskId, date) ==
    [i \in 1..Len(prev) |->
        [prev[i] EXCEPT
            !.subtasks = recursiveUpdate(prev[i].subtasks, taskId,
                                         [scheduledDate |-> date])]]

\* variant: a task that is already scheduled keeps its date
handleScheduleTaskIfUnscheduled(prev, projectId, taskId, date) ==
    [i \in 1..Len(prev) |->
        IF prev[i].id # projectId THEN prev[i]
        ELSE [prev[i] EXCEPT
                !.subtasks =
                    [k \in 1..Len(@) |->
                        IF @[k].id = taskId /\ @[k].scheduledDate # 0 THEN @[k]
                        ELSE recursiveUpdate(<<@[k]>>, taskId,
                                             [scheduledDate |-> date])[1]]]]

handleScheduleTask(prev, projectId, taskId, date) ==
    [i \in 1..Len(prev) |->
        IF prev[i].id # projectId THEN prev[i]
        ELSE [prev[i] EXCEPT
                !.subtasks = recursiveUpdate(prev[i].subtasks, taskId,
                                             [scheduledDate |-> date])]]

\* Planner.updateTask: the same merge, through Planner's own recursiveUpdate
updateTask(prev, projectId, taskId, updates) ==
    [i \in 1..Len(prev) |->
        IF prev[i].id # projectId THEN prev[i]
        ELSE [prev[i] EXCEPT
                !.subtasks = recursiveUpdate(prev[i].subtasks, taskId, updates)]]

\* variant: only the top level is filtered
deleteRecursiveShallow(tasks, taskId) ==
    SelectSeq(tasks, LAMBDA t : t.id # taskId)

\* the local function of Planner.deleteTask
RECURSIVE deleteRecursive(_, _)
deleteRecursive(tasks, taskId) ==
    LET kept == SelectSeq(tasks, LAMBDA t : t.id # taskId)
    IN  [i \in 1..Len(kept) |->
            [kept[i] EXCEPT !.subtasks = deleteRecursive(@, taskId)]]

\* the project wizard's copy of the same function
RECURSIVE deleteTaskInTree(_, _)
deleteTaskInTree(tasks, targetId) ==
    LET kept == SelectSeq(tasks, LAMBDA t : t.id # targetId)
    IN  [i \in 1..Len(kept) |->
            [kept[i] EXCEPT !.subtasks = deleteTaskInTree(@, targetId)]]

deleteTask(prev, projectId, taskId) ==
    [i \in 1..Len(prev) |->
        IF prev[i].id # projectId THEN prev[i]
        ELSE [prev[i] EXCEPT !.subtasks = deleteRecursive(@, taskId)]]

----------------------------------------------------------------------------
(* JavaScript numbers.  A positive double is bits * 2^(-scale): bits is its  *)
(* significand, most significant bit first, at most 53 bits, first bit 1;    *)
(* zero has no bits.  Results are rounded to nearest, ties to even.          *)

MantissaBits == 53
LimbBits == 14

\* binary digits of an integer 0 <= n < 2^30, most significant first
IntBits(n) ==
    LET len == CHOOSE k \in 0..30 : 2^k > n /\ (k = 0 \/ 2^(k - 1) <= n)
    IN  [i \in 1..len |-> (n \div 2^(len - i)) % 2]

\* the w low binary digits of n, leading zeros kept
PadBits(n, w) == [i \in 1..w |-> (n \div 2^(w - i)) % 2]

RECURSIVE BitsValue(_)
BitsValue(bits) ==
    IF bits = <<>> THEN 0
    ELSE IF Len(bits) = 1 THEN bits[1]
         ELSE LET h == Len(bits) \div 2
              IN  BitsValue(SubSeq(bits, 1, h)) * 2^(Len(bits) - h)
                  + BitsValue(SubSeq(bits, h + 1, Len(bits)))

Increment(bits) ==
    LET zeros == {i \in 1..Len(bits) : bits[i] = 0}
    IN  IF zeros = {} THEN <<1>> \o [i \in 1..Len(bits) |-> 0]
        ELSE LET j == CHOOSE z \in zeros : \A y \in zeros : y <= z
             IN  [i \in 1..Len(bits) |->
                    IF i < j THEN bits[i] ELSE IF i = j THEN 1 ELSE 0]

\* 53 exact bits followed by a discarded tail: half is the first discarded
\* bit, sticky says whether a later discarded bit is set
RoundToEven(bits, scale, half, sticky) ==
    LET up == half = 1 /\ (sticky \/ bits[Len(bits)] = 1)
        inc == IF up THEN Increment(bits) ELSE bits
    IN  IF Len(inc) > MantissaBits
        THEN [bits |-> SubSeq(inc, 1, MantissaBits), scale |-> scale - 1]
        ELSE [bits |-> inc, scale |-> scale]

\* 2^i mod t
RECURSIVE PowMod2(_, _)
PowMod2(i, t) ==
    IF i = 0 THEN 1 % t
    ELSE LET h == PowMod2(i \div 2, t)
         IN  (h * h * (IF i % 2 = 1 THEN 2 ELSE 1)) % t

\* what is left of c / t behind i binary places, and the i-th binary place
DivRest(c, t, i) == ((c % t) * PowMod2(i, t)) % t
DivBit(c, t, i) == (2 * DivRest(c, t, i - 1)) \div t

\* the double c / t for integers 0 <= c < 2^30, 0 < t < 2^10
FloatDiv(c, t) ==
    IF c = 0 THEN [bits |-> <<>>, scale |-> 0]
    ELSE LET whole == IntBits(c \div t)
             lead == IF whole # <<>> THEN 0
                     ELSE (CHOOSE i \in 1..11 :
                              /\ DivBit(c, t, i) = 1
                              /\ \A k \in 1..(i - 1) : DivBit(c, t, k) = 0) - 1
             scale == lead + MantissaBits - Len(whole)
             bits == whole \o [i \in 1..(MantissaBits - Len(whole)) |->
                                 DivBit(c, t, lead + i)]
         IN  RoundToEven(bits, scale, DivBit(c, t, scale + 1),
                         DivRest(c, t, scale + 1) # 0)

\* limb j (0 = lowest) of a bit string cut into LimbBits-bit limbs
Limb(bits, j) ==
    LET hi == Len(bits) - j * LimbBits
        lo == IF hi - LimbBits + 1 < 1 THEN 1 ELSE hi - LimbBits + 1
    IN  BitsValue(SubSeq(bits, lo, hi))

\* bits * k from limb j on, with the carry of the limbs below
RECURSIVE MulLimbs(_, _, _, _)
MulLimbs(bits, k, j, carry) ==
    IF j * LimbBits >= Len(bits) THEN IntBits(carry)
    ELSE LET v == Limb(bits, j) * k + carry
         IN  MulLimbs(bits, k, j + 1, v \div 2^LimbBits) \o PadBits(v % 2^LimbBits, LimbBits)

\* drop the zeros in front of the first 1
TrimBits(bits) ==
    LET ones == {i \in 1..Len(bits) : bits[i] = 1}
    IN  IF ones = {} THEN <<>>
        ELSE SubSeq(bits, CHOOSE i \in ones : \A k \in ones : i <= k, Len(bits))

\* the double x * k for a double x >= 0 and an integer 0 < k < 2^10
FloatMul(x, k) ==
    LET p == TrimBits(MulLimbs(x.bits, k, 0, 0))
        extra == Len(p) - MantissaBits
    IN  IF extra <= 0 THEN [bits |-> p, scale |-> x.scale]
        ELSE RoundToEven(SubSeq(p, 1, MantissaBits), x.scale - extra,
                         p[MantissaBits + 1],
                         \E i \in (MantissaBits + 2)..Len(p) : p[i] = 1)

\* Math.round of a double x >= 0 with scale >= 0: floor(x + 0.5), exactly
MathRound(x) ==
    LET intLen == Len(x.bits) - x.scale
        whole == IF intLen <= 0 THEN 0 ELSE BitsValue(SubSeq(x.bits, 1, intLen))
        half == IF intLen < 0 \/ intLen >= Len(x.bits) THEN 0 ELSE x.bits[intLen + 1]
    IN  whole + half

\* traverse of calculateProjectStats: the counters after the forEach over tasks
RECURSIVE traverse(_, _)
traverse(tasks, acc) ==
    IF tasks = <<>> THEN acc
    ELSE LET t == Head(tasks)
             leaf == Len(t.subtasks) = 0
             done == leaf /\ t.status = "COMPLETED"
             counted ==
                 [total |-> acc.total + (IF leaf THEN 1 ELSE 0),
                  totalMinutes |-> acc.totalMinutes + (IF leaf THEN t.estimatedMinutes ELSE 0),
                  completed |-> acc.completed + (IF done THEN 1 ELSE 0),
                  completedMinutes |->
                      acc.completedMinutes + (IF done THEN t.estimatedMinutes ELSE 0)]
         IN  traverse(Tail(tasks),
                      IF Len(t.subtasks) > 0 THEN traverse(t.subtasks, counted)
                      ELSE counted)

\* totalHours and completedHours are kept in tenths of an hour: the value
\* handed to the final division by 10
calculateProjectStats(subtasks) ==
    LET n == traverse(subtasks, [total |-> 0, totalMinutes |-> 0,
                                 completed |-> 0, completedMinutes |-> 0])
    IN  [total |-> n.total,
         completed |-> n.completed,
         percent |-> IF n.total > 0
                     THEN MathRound(FloatMul(FloatDiv(n.completed, n.total), 100))
                     ELSE 0,
         totalHours |-> MathRound(FloatMul(FloatDiv(n.totalMinutes, 60), 10)),
         completedHours |-> MathRound(FloatMul(FloatDiv(n.completedMinutes, 60), 10))]

----------------------------------------------------------------------------
(* Data preparation: the unscheduled queue and the scheduled list *)

\* variant: completed tasks are listed too
IsListedAlways(t) == TRUE

IsListed(t) == t.status # "COMPLETED"

Entries(p) ==
    LET all == flattenTasks(p.subtasks)
    IN  [i \in 1..Len(all) |-> [projectId |-> p.id, task |-> all[i]]]

RECURSIVE AllEntries(_)
AllEntries(ps) ==
    IF ps = <<>> THEN <<>> ELSE Entries(Head(ps)) \o AllEntries(Tail(ps))

IsUnscheduledEntry(e) == IsListed(e.task) /\ e.task.scheduledDate = Undefined
IsScheduledEntry(e) == IsListed(e.task) /\ e.task.scheduledDate # Undefined

unscheduledTasks(ps) == SelectSeq(AllEntries(ps), IsUnscheduledEntry)
scheduledTasks(ps) == SelectSeq(AllEntries(ps), IsScheduledEntry)

----------------------------------------------------------------------------
(* Auto-Scheduler: the body of the timer callback of handleAutoSchedule *)

daysToSchedule(mode, date) ==
    IF mode = "DAY" THEN <<date>>
    ELSE [i \in 1..DaysPerWeek |-> addDays(getStartOfWeek(date), i - 1)]

\* variant: the map survives from the previous callback
StaleGrid(days) ==
    [dayStr \in {toDateString(days[i]) : i \in 1..Len(days)} |->
        IF dayStr \in DOMAIN occupied THEN occupied[dayStr] ELSE {}]

EmptyGrid(days) ==
    [dayStr \in {toDateString(days[i]) : i \in 1..Len(days)} |-> {}]

\* variant: only the start minute of a scheduled task is marked
MarkScheduledStartOnly(grid, task) ==
    IF task.scheduledDate = Undefined THEN grid
    ELSE LET dayStr == toDateString(task.scheduledDate)
         IN  IF dayStr \in DOMAIN grid
             THEN [grid EXCEPT ![dayStr] = @ \cup {minuteOfDay(task.scheduledDate)}]
             ELSE grid

\* variant: a task that runs past midnight goes on into the next day
MarkScheduledWrap(grid, task) ==
    IF task.scheduledDate = Undefined THEN grid
    ELSE LET dayStr == toDateString(task.scheduledDate)
             startMin == minuteOfDay(task.scheduledDate)
             endMin == startMin + task.estimatedMinutes
         IN  [d \in DOMAIN grid |->
                IF d = dayStr
                THEN grid[d] \cup {i \in startMin..(endMin - 1) : i < MinutesPerDay}
                ELSE IF d = dayStr + 1
                     THEN grid[d] \cup (0..(endMin - MinutesPerDay - 1))
                     ELSE grid[d]]

MarkScheduled(grid, task) ==
    IF task.scheduledDate = Undefined THEN grid
    ELSE LET dayStr == toDateString(task.scheduledDate)
             startMin == minuteOfDay(task.scheduledDate)
             endMin == startMin + task.estimatedMinutes
         IN  IF dayStr \in DOMAIN grid
             THEN [grid EXCEPT ![dayStr] =
                      @ \cup {i \in startMin..(endMin - 1) : i < MinutesPerDay}]
             ELSE grid

RECURSIVE FillOccupied(_, _)
FillOccupied(grid, scheduled) ==
    IF scheduled = <<>> THEN grid
    ELSE FillOccupied(MarkScheduled(grid, Head(scheduled).task), Tail(scheduled))

BuildOccupied(days, scheduled) == FillOccupied(EmptyGrid(days), scheduled)

\* variant: no 15-minute floor
DurationUnclamped(task) == task.estimatedMinutes

Duration(task) == Max(MinDuration, task.estimatedMinutes)

\* variant: the scan runs to 17:00 whatever the duration
LastStartEndOfDay(duration) == END_HOUR * 60

\* variant: the loop bound is strict
LastStartStrict(duration) == END_HOUR * 60 - duration - 1

LastStart(duration) == END_HOUR * 60 - duration

NoSlot == 0 - 1

IsFree(slots, min, duration) == \A k \in 0..(duration - 1) : (min + k) \notin slots

\* variant: only the start minute of a placement is marked
MarkClaimedStartOnly(slots, min, duration) == slots \cup {min}

MarkClaimed(slots, min, duration) == slots \cup {min + k : k \in 0..(duration - 1)}

\* variant: the scan advances by two grid steps
RECURSIVE ScanDayCoarse(_, _, _)
ScanDayCoarse(slots, min, duration) ==
    IF min > END_HOUR * 60 - duration THEN 0 - 1
    ELSE IF \A k \in 0..(duration - 1) : (min + k) \notin slots THEN min
         ELSE ScanDayCoarse(slots, min + 2 * SlotStep, duration)

\* the inner for loop: the first free start of one day at or after min
RECURSIVE ScanDay(_, _, _)
ScanDay(slots, min, duration) ==
    IF min > LastStart(duration) THEN NoSlot
    ELSE IF IsFree(slots, min, duration) THEN min
         ELSE ScanDay(slots, min + SlotStep, duration)

\* the for loop over the horizon days from index i on: <<day index, start>>
RECURSIVE ScanDays(_, _, _, _)
ScanDays(days, i, grid, duration) ==
    IF i > Len(days) THEN <<0, NoSlot>>
    ELSE LET min == ScanDay(grid[toDateString(days[i])], START_HOUR * 60, duration)
         IN  IF min # NoSlot THEN <<i, min>>
             ELSE ScanDays(days, i + 1, grid, duration)

RECURSIVE PlaceQueue(_, _, _, _)
PlaceQueue(queue, days, grid, updates) ==
    IF queue = <<>> THEN [grid |-> grid, updates |-> updates]
    ELSE LET entry == Head(queue)
             duration == Duration(entry.task)
             hit == ScanDays(days, 1, grid, duration)
         IN  IF hit[1] = 0 THEN PlaceQueue(Tail(queue), days, grid, updates)
             ELSE LET dayStr == toDateString(days[hit[1]])
                      upd == [projectId |-> entry.projectId,
                              taskId |-> entry.task.id,
                              date |-> setHours(days[hit[1]], 0, hit[2])]
                  IN  PlaceQueue(Tail(queue), days,
                                 [grid EXCEPT ![dayStr] = MarkClaimed(@, hit[2], duration)],
                                 Append(updates, upd))

Least(S) == CHOOSE m \in S : \A n \in S : m <= n

findIndex(ps, projectId) ==
    LET hits == {i \in 1..Len(ps) : ps[i].id = projectId}
    IN  IF hits = {} THEN 0 ELSE Least(hits)

ApplyUpdate(ps, upd) ==
    LET projIndex == findIndex(ps, upd.projectId)
    IN  IF projIndex = 0 THEN ps
        ELSE [ps EXCEPT ![projIndex].subtasks =
                 bulkUpdateTaskInTree(@, upd.taskId, [scheduledDate |-> upd.date])]

\* variant: only the first update is applied
ApplyUpdatesFirstOnly(prevProjects, updates) ==
    IF updates = <<>> THEN prevProjects
    ELSE ApplyUpdate(prevProjects, Head(updates))

RECURSIVE ApplyUpdates(_, _)
ApplyUpdates(prevProjects, updates) ==
    IF updates = <<>> THEN prevProjects
    ELSE ApplyUpdates(ApplyUpdate(prevProjects, Head(updates)), Tail(updates))

----------------------------------------------------------------------------
(* Resize snapping *)

\* Math.round(x / 15) for an integer x >= 0
RoundDiv(x, step) == (2 * x + step) \div (2 * step)

\* variant: the height is rounded down
SnapMinutesFloor(height) == Max(MinHeight, (height \div SnapStep) * SnapStep)

SnapMinutes(height) == Max(MinHeight, RoundDiv(height, SnapStep) * SnapStep)

----------------------------------------------------------------------------
(* What the calendar shows *)

weekDays(mode, date) ==
    IF mode = "DAY" THEN <<date>>
    ELSE IF mode = "WEEK"
         THEN [i \in 1..DaysPerWeek |-> addDays(getStartOfWeek(date), i - 1)]
         ELSE <<>>

\* renderMonthView: new Date(year, month, day) for day = 1..daysInMonth
monthDays(date) ==
    LET first == (dayOf(date) - (dayOf(date) % DaysInMonth)) * MinutesPerDay
    IN  [i \in 1..DaysInMonth |-> addDays(first, i - 1)]

\* the days whose cells are on screen
shownDays(mode, date) ==
    IF mode = "MONTH" THEN monthDays(date) ELSE weekDays(mode, date)

\* an event block of the intraday view or a chip of the month view:
\* scheduled, listed, on a shown day
IsShown(e) ==
    /\ IsScheduledEntry(e)
    /\ \E i \in 1..Len(shownDays(viewMode, currentDate)) :
          isSameDay(shownDays(viewMode, currentDate)[i], e.task.scheduledDate)

Range(seq) == {seq[i] : i \in 1..Len(seq)}

ProjectById(ps, projectId) == CHOOSE p \in Range(ps) : p.id = projectId

\* the elements that carry onDragStart: backlog cards and event blocks
DragSources == {e \in Range(AllEntries(projects)) : IsUnscheduledEntry(e) \/ IsShown(e)}

\* the drag payload: dataTransfer.getData('application/json')
Payload(kind, projectId, taskId) ==
    [kind |-> kind, projectId |-> projectId, taskId |-> taskId]

\* what handleDragStart puts on a drag that starts in the calendar
OwnPayloads == {Payload("json", e.projectId, e.task.id) : e \in DragSources}

\* drags that start elsewhere: no data, text that is not JSON, JSON whose
\* ids name no project, no task, or a task of another project
ForeignPayloads ==
    {Payload("empty", "", ""), Payload("garbage", "", ""),
     Payload("json", "ghost", "a"), Payload("json", "inbox", "ghost"),
     Payload("json", "p1", "a")}

NoDrop == [n |-> 0, target |-> "none", data |-> Payload("empty", "", ""),
           date |-> 0, hour |-> NoHour, outcome |-> "none", was |-> Undefined]

\* scheduledDate of the task a payload names, Undefined when it names none
DateOfRef(ps, data) ==
    LET hits == {e \in Range(AllEntries(ps)) :
                    e.projectId = data.projectId /\ e.task.id = data.taskId}
    IN  IF data.kind = "json" /\ hits # {}
        THEN (CHOOSE e \in hits : TRUE).task.scheduledDate
        ELSE Undefined

\* the cells that take a drop: <<date of the cell, hour>>
DropCells ==
    LET days == shownDays(viewMode, currentDate)
        base == IF viewMode = "WEEK" THEN dayOf(getStartOfWeek(currentDate))
                ELSE dayOf(currentDate)
    IN  {<<days[i], hour>> :
            i \in {k \in 1..Len(days) : (dayOf(days[k]) - base) \in DropOffsets},
            hour \in IF viewMode = "MONTH" THEN {NoHour} ELSE DropHours}

\* how a drop handler ends: early return, catch block, or the store callback
DropOutcome(data) ==
    IF data.kind = "empty" THEN "returned"
    ELSE IF data.kind = "garbage" THEN "caught"
    ELSE "called"

scheduledTime(date, hour) ==
    IF hour # NoHour THEN setHours(date, hour, 0) ELSE date

durationHeight(task) ==
    IF resizingTask.taskId = task.id /\ currentResizeHeight # NullHeight
    THEN currentResizeHeight
    ELSE Max(task.estimatedMinutes, MinRenderHeight)

----------------------------------------------------------------------------
(* Initial states: an inbox with a stage and a child task, a second       *)
(* project with one task that may already be scheduled or completed.      *)

Task(id, status, est, date, subtasks) ==
    [id |-> id, status |-> status, estimatedMinutes |-> est,
     scheduledDate |-> date, subtasks |-> subtasks]

InitDates == {Undefined,
              Today * MinutesPerDay + START_HOUR * 60,
              (Today - 1) * MinutesPerDay + 23 * 60}

InitProjects ==
    \E es \in StageEstSet, ea \in TaskEstSet, eb \in BookedEstSet,
       sb \in {"TODO", "COMPLETED"}, db \in InitDates :
       /\ (sb = "COMPLETED") => (db = Today * MinutesPerDay + START_HOUR * 60)
       /\ projects =
            << [id |-> "inbox",
                subtasks |-> << Task("s", "TODO", es, Undefined,
                                  << Task("a", "IN_PROGRESS", ea, Undefined, <<>>) >>) >>],
               [id |-> "p1",
                subtasks |-> << Task("b", sb, eb, db, <<>>) >>] >>

NoCall == [n |-> 0, op |-> "none", projectId |-> "", taskId |-> ""]
NoStats == [total |-> 0, completed |-> 0, percent |-> 0,
            totalHours |-> 0, completedHours |-> 0]

\* Planner state as mounted: no breakdown in flight
InitPlanner ==
    /\ iteratingTasks = {}
    /\ requests = <<>>
    /\ made = 0
    /\ lastCall = NoCall
    /\ stats = NoStats

NoTask == [id |-> ""]

\* GENERAL_PROJECT, the project of sessions not tied to a task
GENERAL_PROJECT == [id |-> "general", subtasks |-> <<>>]

DefaultTimer ==
    [isActive |-> FALSE, startTime |-> Null, endTime |-> Null,
     duration |-> DefaultMinutes * 60, projectId |-> "general", subtaskId |-> ""]

\* the history App starts with: the newest of the generated sessions
MockHistory ==
    << [id |-> "t1", projectId |-> "general", subtaskId |-> "", startTime |-> 0 - 1800,
        endTime |-> Null, durationMinutes |-> DefaultMinutes,
        actualDurationMinutes |-> DefaultMinutes, completed |-> TRUE] >>

\* App as mounted: timer at rest, the focus view on Deep Work
InitFocus ==
    /\ timerState = DefaultTimer
    /\ activeContextProject = GENERAL_PROJECT
    /\ activeContextSubtask = NoTask
    /\ history = MockHistory
    /\ timeLeft = DefaultTimer.duration
    /\ now = 1

InitIntegrations ==
    /\ connectedApps = <<>>
    /\ isConnecting = ""
    /\ connectTimers = <<>>

NoSidebar == [inbox |-> 0, today |-> 0, upcoming |-> 0,
              inboxList |-> 0, todayList |-> 0, upcomingList |-> 0]

\* CalendarPlan as mounted, showing view mode `mode`
InitCalendar(mode) ==
    /\ viewMode = mode
    /\ currentDate = Today * MinutesPerDay + MountMinute
    /\ isAutoScheduling = FALSE
    /\ pending = <<>>
    /\ occupied = <<>>
    /\ runLog = <<>>
    /\ resizingTask = NoResize
    /\ currentResizeHeight = NullHeight
    /\ mouseY = 0
    /\ lastResize = [startHeight |-> 0, delta |-> 0, minutes |-> 0]
    /\ steps = 0
    /\ view = "CALENDAR"
    /\ instance = 1
    /\ lastDrop = NoDrop
    /\ InitPlanner
    /\ InitFocus
    /\ InitIntegrations
    /\ sidebar = NoSidebar

Init == InitProjects /\ InitCalendar("WEEK")

----------------------------------------------------------------------------
(* Actions *)

calendarVars == <<viewMode, currentDate>>
runVars == <<isAutoScheduling, pending, occupied, runLog>>
resizeVars == <<resizingTask, currentResizeHeight, mouseY, lastResize>>
appVars == <<view, instance>>
plannerVars == <<iteratingTasks, requests, made, lastCall, stats>>
focusVars == <<timerState, activeContextProject, activeContextSubtask, history,
               timeLeft, now>>
integrationVars == <<connectedApps, isConnecting, connectTimers>>

\* click on the Auto Schedule button: set the flag, arm the 800 ms timer
handleAutoSchedule ==
    /\ view = "CALENDAR"
    /\ ~isAutoScheduling
    /\ Len(unscheduledTasks(projects)) > 0
    /\ viewMode # "MONTH"
    /\ Len(pending) + Len(runLog) < MaxRuns
    /\ isAutoScheduling' = TRUE
    /\ pending' = Append(pending,
                         [unscheduledTasks |-> unscheduledTasks(projects),
                          scheduledTasks |-> scheduledTasks(projects),
                          viewMode |-> viewMode,
                          currentDate |-> currentDate,
                          projects |-> projects,
                          instance |-> instance])
    /\ UNCHANGED <<projects, calendarVars, occupied, runLog, resizeVars, steps,
                   appVars, lastDrop, plannerVars, focusVars,
                   integrationVars, sidebar>>

\* the timer callback: build the grid, place the queue, apply, clear the flag
AutoScheduleTimer ==
    /\ pending # <<>>
    /\ LET c == Head(pending)
           days == daysToSchedule(c.viewMode, c.currentDate)
           res == PlaceQueue(c.unscheduledTasks, days,
                             BuildOccupied(days, c.scheduledTasks), <<>>)
       IN  /\ projects' = IF Len(res.updates) > 0
                          THEN ApplyUpdates(projects, res.updates)
                          ELSE projects
           /\ occupied' = res.grid
           /\ runLog' = Append(runLog,
                               [queue |-> c.unscheduledTasks,
                                scheduled |-> c.scheduledTasks,
                                base |-> c.projects,
                                fired |-> projects,
                                firedIn |-> view,
                                built |-> BuildOccupied(days, c.scheduledTasks),
                                days |-> days,
                                updates |-> res.updates])
           \* setIsAutoScheduling belongs to the instance that armed the timer
           /\ isAutoScheduling' = IF c.instance = instance /\ view = "CALENDAR"
                                  THEN FALSE ELSE isAutoScheduling
    /\ pending' = Tail(pending)
    /\ UNCHANGED <<calendarVars, resizeVars, steps, appVars, lastDrop, plannerVars, focusVars,
                   integrationVars, sidebar>>

\* drop of a dragged task on an hour cell of a shown day
handleDrop ==
    /\ view = "CALENDAR"
    /\ steps < MaxSteps
    /\ \E data \in OwnPayloads \cup ForeignPayloads, cell \in DropCells :
          /\ projects' =
                IF DropOutcome(data) = "called"
                THEN handleScheduleTask(projects, data.projectId, data.taskId,
                                        scheduledTime(cell[1], cell[2]))
                ELSE projects
          /\ lastDrop' = [n |-> lastDrop.n + 1, target |-> "cell", data |-> data,
                          date |-> cell[1], hour |-> cell[2],
                          outcome |-> DropOutcome(data),
                          was |-> DateOfRef(projects, data)]
    /\ steps' = steps + 1
    /\ UNCHANGED <<calendarVars, runVars, resizeVars, appVars, plannerVars, focusVars,
                   integrationVars, sidebar>>

\* drop of a dragged task on the backlog
handleUnscheduleDrop ==
    /\ view = "CALENDAR"
    /\ steps < MaxSteps
    /\ \E data \in OwnPayloads \cup ForeignPayloads :
          /\ projects' =
                IF DropOutcome(data) = "called"
                THEN handleUpdateTask(projects, data.projectId, data.taskId,
                                      [scheduledDate |-> Undefined])
                ELSE projects
          /\ lastDrop' = [n |-> lastDrop.n + 1, target |-> "backlog", data |-> data,
                          date |-> 0, hour |-> NoHour,
                          outcome |-> DropOutcome(data),
                          was |-> DateOfRef(projects, data)]
    /\ steps' = steps + 1
    /\ UNCHANGED <<calendarVars, runVars, resizeVars, appVars, plannerVars, focusVars,
                   integrationVars, sidebar>>

setViewMode ==
    /\ view = "CALENDAR"
    /\ steps < MaxSteps
    /\ \E mode \in {"DAY", "WEEK", "MONTH"} :
          /\ mode # viewMode
          /\ viewMode' = mode
    /\ steps' = steps + 1
    /\ UNCHANGED <<projects, currentDate, runVars, resizeVars, appVars, lastDrop, plannerVars, focusVars,
                   integrationVars, sidebar>>

handlePrev ==
    /\ view = "CALENDAR"
    /\ steps < MaxSteps
    /\ viewMode # "MONTH"
    /\ currentDate' = IF viewMode = "WEEK" THEN addDays(currentDate, 0 - DaysPerWeek)
                      ELSE addDays(currentDate, 0 - 1)
    /\ steps' = steps + 1
    /\ UNCHANGED <<projects, viewMode, runVars, resizeVars, appVars, lastDrop, plannerVars, focusVars,
                   integrationVars, sidebar>>

handleNext ==
    /\ view = "CALENDAR"
    /\ steps < MaxSteps
    /\ viewMode # "MONTH"
    /\ currentDate' = IF viewMode = "WEEK" THEN addDays(currentDate, DaysPerWeek)
                      ELSE addDays(currentDate, 1)
    /\ steps' = steps + 1
    /\ UNCHANGED <<projects, viewMode, runVars, resizeVars, appVars, lastDrop, plannerVars, focusVars,
                   integrationVars, sidebar>>

\* mousedown on the resize handle of an event block
handleResizeStart ==
    /\ view = "CALENDAR"
    /\ steps < MaxSteps
    /\ resizingTask = NoResize
    /\ \E e \in DragSources, clientY \in PointerYs :
          /\ IsShown(e)
          /\ mouseY' = clientY
          /\ resizingTask' = [projectId |-> e.projectId, taskId |-> e.task.id,
                              startY |-> clientY,
                              startHeight |-> durationHeight(e.task)]
    /\ steps' = steps + 1
    /\ UNCHANGED <<projects, calendarVars, runVars, currentResizeHeight, lastResize,
                   appVars, lastDrop, plannerVars, focusVars,
                   integrationVars, sidebar>>

\* window mousemove while a resize is in progress
handleMouseMove ==
    /\ view = "CALENDAR"
    /\ resizingTask # NoResize
    /\ \E clientY \in PointerYs :
          /\ mouseY' = clientY
          /\ currentResizeHeight' =
                Max(MinHeight, resizingTask.startHeight + (clientY - resizingTask.startY))
    /\ UNCHANGED <<projects, calendarVars, runVars, resizingTask, lastResize, steps,
                   appVars, lastDrop, plannerVars, focusVars,
                   integrationVars, sidebar>>

\* window mouseup while a resize is in progress
handleMouseUp ==
    /\ view = "CALENDAR"
    /\ resizingTask # NoResize
    /\ IF currentResizeHeight # NullHeight
       THEN LET snappedMinutes == SnapMinutes(currentResizeHeight)
            IN  /\ projects' = handleUpdateTask(projects, resizingTask.projectId,
                                   resizingTask.taskId,
                                   [estimatedMinutes |-> snappedMinutes])
                /\ lastResize' = [startHeight |-> resizingTask.startHeight,
                                  delta |-> mouseY - resizingTask.startY,
                                  minutes |-> snappedMinutes]
       ELSE UNCHANGED <<projects, lastResize>>
    /\ resizingTask' = NoResize
    /\ currentResizeHeight' = NullHeight
    /\ UNCHANGED <<calendarVars, runVars, mouseY, steps, appVars, lastDrop, plannerVars, focusVars,
                   integrationVars, sidebar>>

Next ==
    \/ handleAutoSchedule
    \/ AutoScheduleTimer
    \/ handleDrop
    \/ handleUnscheduleDrop
    \/ setViewMode
    \/ handlePrev
    \/ handleNext

Spec == Init /\ [][Next]_vars

\* the resize drag on its own: an event block is grabbed, dragged, released
ResizeNext ==
    \/ handleResizeStart
    \/ handleMouseMove
    \/ handleMouseUp
    \/ handleDrop

ResizeSpec == Init /\ [][ResizeNext]_vars

\* the calendar as the user finds it after picking a view mode
DropInit == InitProjects /\ \E mode \in {"DAY", "WEEK", "MONTH"} : InitCalendar(mode)

\* drag and drop on its own, with drags that start outside the calendar
DropNext ==
    \/ handleDrop
    \/ handleUnscheduleDrop
    \/ setViewMode

DropSpec == DropInit /\ [][DropNext]_vars

\* variant: unmounting clears the timers of the component
leaveCalendarClearsTimers ==
    /\ view = "CALENDAR"
    /\ view' = "PLANNER"
    /\ pending' = <<>>
    /\ UNCHANGED <<projects, calendarVars, isAutoScheduling, occupied, runLog,
                   resizeVars, steps, instance, lastDrop, plannerVars, focusVars,
                   integrationVars, sidebar>>

----------------------------------------------------------------------------
(* The Planner view: a project with a three-level tree and a second project *)

PlannerProjects ==
    \E ss, sa, sg, sc \in {"TODO", "COMPLETED"},
       sb \in {"TODO", "IN_PROGRESS", "COMPLETED"} :
        projects =
            << [id |-> "inbox",
                subtasks |->
                  << Task("s", ss, 60, Undefined,
                        << Task("a", sa, 30, Undefined,
                              << Task("g", sg, 20, Undefined, <<>>) >>),
                           Task("c", sc, 45, Undefined, <<>>) >>) >>],
               [id |-> "p1",
                subtasks |-> << Task("b", sb, 20, Undefined, <<>>) >>] >>

PlannerInit ==
    /\ PlannerProjects
    /\ viewMode = "WEEK"
    /\ currentDate = Today * MinutesPerDay + MountMinute
    /\ isAutoScheduling = FALSE
    /\ pending = <<>>
    /\ occupied = <<>>
    /\ runLog = <<>>
    /\ resizingTask = NoResize
    /\ currentResizeHeight = NullHeight
    /\ mouseY = 0
    /\ lastResize = [startHeight |-> 0, delta |-> 0, minutes |-> 0]
    /\ steps = 0
    /\ view = "PLANNER"
    /\ instance = 0
    /\ lastDrop = NoDrop
    /\ InitPlanner
    /\ InitFocus
    /\ InitIntegrations
    /\ sidebar = NoSidebar

notPlannerVars ==
    <<calendarVars, runVars, resizeVars, steps, appVars, lastDrop, focusVars,
      integrationVars, sidebar>>

\* the delete button of a task row
deleteTaskClick ==
    /\ view = "PLANNER"
    /\ lastCall.n < MaxCalls
    /\ \E e \in Range(AllEntries(projects)) :
          /\ projects' = deleteTask(projects, e.projectId, e.task.id)
          /\ lastCall' = [n |-> lastCall.n + 1, op |-> "deleteTask",
                          projectId |-> e.projectId, taskId |-> e.task.id]
    /\ UNCHANGED <<notPlannerVars, iteratingTasks, requests, made, stats>>

\* toggleStatus: the status it writes, given the status it is handed
toggledStatus(currentStatus) ==
    IF currentStatus = "COMPLETED" THEN "TODO" ELSE "COMPLETED"

\* the checkbox of a task row
toggleStatus ==
    /\ view = "PLANNER"
    /\ lastCall.n < MaxCalls
    /\ \E e \in Range(AllEntries(projects)) :
          /\ projects' = updateTask(projects, e.projectId, e.task.id,
                                    [status |-> toggledStatus(e.task.status)])
          /\ lastCall' = [n |-> lastCall.n + 1, op |-> "toggleStatus",
                          projectId |-> e.projectId, taskId |-> e.task.id]
    /\ UNCHANGED <<notPlannerVars, iteratingTasks, requests, made, stats>>

\* the complete button of a card in the To Do or In Progress column of the
\* board: onUpdateStatus is toggleStatus, called with TaskStatus.COMPLETED
boardCompleteClick ==
    /\ view = "PLANNER"
    /\ lastCall.n < MaxCalls
    /\ \E e \in Range(AllEntries(projects)) :
          /\ e.task.status # "COMPLETED"
          /\ projects' = updateTask(projects, e.projectId, e.task.id,
                                    [status |-> toggledStatus("COMPLETED")])
          /\ lastCall' = [n |-> lastCall.n + 1, op |-> "boardComplete",
                          projectId |-> e.projectId, taskId |-> e.task.id]
    /\ UNCHANGED <<notPlannerVars, iteratingTasks, requests, made, stats>>

\* the breakdown button of a task row, up to the await: the request is sent
\* with the task object of the row as rendered
handleAutoBreakdown ==
    /\ view = "PLANNER"
    /\ lastCall.n < MaxCalls
    /\ \E e \in Range(AllEntries(projects)) :
          /\ e.task.id \notin iteratingTasks
          /\ iteratingTasks' = iteratingTasks \cup {e.task.id}
          /\ requests' = Append(requests, [projectId |-> e.projectId, task |-> e.task])
          /\ lastCall' = [n |-> lastCall.n + 1, op |-> "handleAutoBreakdown",
                          projectId |-> e.projectId, taskId |-> e.task.id]
    /\ UNCHANGED <<notPlannerVars, projects, made, stats>>

\* the updateTask call of handleAutoBreakdown after the await
BreakdownUpdate(prev, request, newSubtasks) ==
    updateTask(prev, request.projectId, request.task.id,
               [subtasks |-> request.task.subtasks \o newSubtasks])

\* suggestSubtasks settles for one of the requests in flight, with count
\* suggestions (none when the model returns [] or the call is rejected)
handleAutoBreakdownResumes ==
    /\ requests # <<>>
    /\ \E i \in 1..Len(requests), count \in SuggestedCounts :
          LET request == requests[i]
              newSubtasks == [j \in 1..count |->
                                Task("n" \o ToString(made + j), "TODO",
                                     SuggestedMinutes, Undefined, <<>>)]
          IN  /\ projects' = IF count > 0
                             THEN BreakdownUpdate(projects, request, newSubtasks)
                             ELSE projects
              /\ made' = made + count
              /\ iteratingTasks' = iteratingTasks \ {request.task.id}
              /\ requests' = SubSeq(requests, 1, i - 1)
                             \o SubSeq(requests, i + 1, Len(requests))
              /\ lastCall' = [n |-> lastCall.n + 1,
                              op |-> IF count > 0 THEN "breakdown" ELSE "noBreakdown",
                              projectId |-> request.projectId,
                              taskId |-> request.task.id]
    /\ UNCHANGED <<notPlannerVars, stats>>

PlannerNext ==
    \/ deleteTaskClick
    \/ toggleStatus
    \/ boardCompleteClick
    \/ handleAutoBreakdown
    \/ handleAutoBreakdownResumes

PlannerSpec == PlannerInit /\ [][PlannerNext]_vars

----------------------------------------------------------------------------
(* The progress figures of the Planner: a project of n leaf tasks, the first *)
(* c of them completed, either directly under the project or under one       *)
(* container task.                                                           *)

LeafRow(i, c) ==
    Task(ToString(i), IF i <= c THEN "COMPLETED" ELSE "TODO", LeafMinutes,
         Undefined, <<>>)

StatsProjects ==
    \E n \in 0..MaxLeaves :
      \E c \in 0..n :
        LET leaves == [i \in 1..n |-> LeafRow(i, c)]
        IN  \/ projects = << [id |-> "inbox", subtasks |-> leaves] >>
            \/ \E sk \in {"TODO", "COMPLETED"}, ek \in StageEstSet :
                  projects = << [id |-> "inbox",
                                 subtasks |-> << Task("k", sk, ek, Undefined, leaves) >>] >>

StatsInit ==
    /\ StatsProjects
    /\ viewMode = "WEEK"
    /\ currentDate = Today * MinutesPerDay + MountMinute
    /\ isAutoScheduling = FALSE
    /\ pending = <<>>
    /\ occupied = <<>>
    /\ runLog = <<>>
    /\ resizingTask = NoResize
    /\ currentResizeHeight = NullHeight
    /\ mouseY = 0
    /\ lastResize = [startHeight |-> 0, delta |-> 0, minutes |-> 0]
    /\ steps = 0
    /\ view = "PLANNER"
    /\ instance = 0
    /\ lastDrop = NoDrop
    /\ InitPlanner
    /\ InitFocus
    /\ InitIntegrations
    /\ sidebar = NoSidebar

\* the Planner renders the progress of a project
renderStats ==
    /\ view = "PLANNER"
    /\ lastCall.n < MaxSteps
    /\ \E i \in 1..Len(projects) :
          /\ stats' = calculateProjectStats(projects[i].subtasks)
          /\ lastCall' = [n |-> lastCall.n + 1, op |-> "stats",
                          projectId |-> projects[i].id, taskId |-> ""]
    /\ UNCHANGED <<notPlannerVars, projects, iteratingTasks, requests, made>>

StatsNext ==
    \/ renderStats

StatsSpec == StatsInit /\ [][StatsNext]_vars

\* Layout: the user leaves the calendar; CalendarPlan is unmounted, its timers
\* are not cleared
leaveCalendar ==
    /\ view = "CALENDAR"
    /\ view' = "PLANNER"
    /\ UNCHANGED <<projects, calendarVars, runVars, resizeVars, steps, instance,
                   lastDrop, plannerVars, focusVars,
                   integrationVars, sidebar>>

\* Layout: the user comes back; a new CalendarPlan runs its useState initialisers
enterCalendar ==
    /\ view # "CALENDAR"
    /\ instance < MaxMounts
    /\ view' = "CALENDAR"
    /\ instance' = instance + 1
    /\ viewMode' = "WEEK"
    /\ currentDate' = Today * MinutesPerDay + MountMinute
    /\ isAutoScheduling' = FALSE
    /\ resizingTask' = NoResize
    /\ currentResizeHeight' = NullHeight
    /\ UNCHANGED <<projects, pending, occupied, runLog, mouseY, lastResize, steps,
                   lastDrop, plannerVars, focusVars,
                   integrationVars, sidebar>>

\* the Auto-Scheduler while the user moves between the views of the app
MountNext ==
    \/ handleAutoSchedule
    \/ AutoScheduleTimer
    \/ setViewMode
    \/ leaveCalendar
    \/ enterCalendar

MountSpec == Init /\ [][MountNext]_vars

\* the oldest timer leaves the timer queue: its callback has run
TimerFires == pending # <<>> /\ pending' = Tail(pending)

\* a timer armed by setTimeout fires once its 800 ms have passed; nothing in
\* the program clears it
MountFairSpec == MountSpec /\ WF_pending(TimerFires)

----------------------------------------------------------------------------
(* The focus timer: App's timerState, active context and history, and the    *)
(* handlers of FocusTimer.  Time is in seconds; the 200 ms interval of the   *)
(* tick effect is folded into the step that moves the clock.                 *)

FocusTask(id, est, subtasks) ==
    [id |-> id, status |-> "TODO", estimatedMinutes |-> est,
     scheduledDate |-> Undefined, actualMinutes |-> 0, subtasks |-> subtasks]

FocusProjects ==
    \E es \in {0, 10}, ea \in {5, 10} :
        projects =
            << [id |-> "inbox",
                subtasks |-> << FocusTask("s", es, << FocusTask("a", ea, <<>>) >>) >>],
               [id |-> "p1",
                subtasks |-> << FocusTask("b", 5, <<>>) >>] >>

RECURSIVE findTaskById(_, _)
findTaskById(tasks, id) ==
    IF tasks = <<>> THEN NoTask
    ELSE IF Head(tasks).id = id THEN Head(tasks)
         ELSE LET found == findTaskById(Head(tasks).subtasks, id)
              IN  IF found # NoTask THEN found ELSE findTaskById(Tail(tasks), id)

\* the sync effect of App with a running timer: the context the timer names
runningProject(ps, ts) ==
    LET hits == SelectSeq(ps, LAMBDA p : p.id = ts.projectId)
    IN  IF hits # <<>> THEN hits[1] ELSE GENERAL_PROJECT

runningSubtask(ps, ts) ==
    IF ts.subtaskId # "" THEN findTaskById(runningProject(ps, ts).subtasks, ts.subtaskId)
    ELSE NoTask

\* toggleTimer, START branch
startTimer(prev, t, left, project, subtask) ==
    [prev EXCEPT !.isActive = TRUE,
                 !.startTime = IF prev.startTime # Null THEN prev.startTime ELSE t,
                 !.endTime = t + left,
                 !.projectId = project.id,
                 !.subtaskId = subtask.id]

\* variant: pausing leaves the end time in place
pauseTimerKeepsEnd(prev, left) ==
    [prev EXCEPT !.isActive = FALSE, !.duration = left]

\* toggleTimer, PAUSE branch
pauseTimer(prev, left) ==
    [prev EXCEPT !.isActive = FALSE, !.endTime = Null, !.duration = left]

\* the session handleFinish hands to onSessionComplete at time t
sessionOf(ts, subtask, completed, t) ==
    LET startTime == IF ts.startTime # Null THEN ts.startTime ELSE t
        estimateMins == IF subtask # NoTask /\ subtask.estimatedMinutes > 0
                        THEN subtask.estimatedMinutes ELSE DefaultMinutes
        elapsedSeconds == IF completed THEN estimateMins * 60 ELSE t - startTime
    IN  [id |-> "h" \o ToString(Len(history)),
         projectId |-> ts.projectId, subtaskId |-> ts.subtaskId,
         startTime |-> startTime, endTime |-> t,
         durationMinutes |-> estimateMins,
         actualDurationMinutes |-> Max(1, elapsedSeconds \div 60),
         completed |-> completed]

\* variant: the task is marked COMPLETED whatever the outcome of the session
RECURSIVE updateForSessionAlwaysDone(_, _)
updateForSessionAlwaysDone(tasks, session) ==
    [i \in 1..Len(tasks) |->
        IF tasks[i].id = session.subtaskId
        THEN [tasks[i] EXCEPT
                !.status = "COMPLETED",
                !.actualMinutes = @ + session.actualDurationMinutes]
        ELSE [tasks[i] EXCEPT !.subtasks = updateForSessionAlwaysDone(@, session)]]

\* recursiveUpdate with the updater of handleSessionComplete
RECURSIVE updateForSession(_, _)
updateForSession(tasks, session) ==
    [i \in 1..Len(tasks) |->
        IF tasks[i].id = session.subtaskId
        THEN [tasks[i] EXCEPT
                !.status = IF session.completed THEN "COMPLETED" ELSE @,
                !.actualMinutes = @ + session.actualDurationMinutes]
        ELSE [tasks[i] EXCEPT !.subtasks = updateForSession(@, session)]]

\* handleFinish and handleSessionComplete for the timer state ts at time t;
\* the active context stays as it is
handleFinish(ts, completed, t) ==
    LET session == sessionOf(ts, activeContextSubtask, completed, t)
    IN  /\ history' = <<session>> \o history
        /\ projects' =
              IF session.projectId # "" /\ session.subtaskId # ""
              THEN [i \in 1..Len(projects) |->
                      IF projects[i].id # session.projectId THEN projects[i]
                      ELSE [projects[i] EXCEPT
                              !.subtasks = updateForSession(@, session)]]
              ELSE projects
        /\ timerState' = DefaultTimer
        /\ view' = "DASHBOARD"

calculateInitialTimeLeft(ts, t) ==
    IF ts.isActive /\ ts.endTime # Null THEN Max(0, ts.endTime - t) ELSE ts.duration

\* FocusTimer is mounted with timer state ts: the dial is set and the tick
\* effect syncs at once, which ends a session whose end time has passed
mountFocusTimer(ts) ==
    IF ts.isActive /\ ts.endTime # Null /\ ts.endTime - now <= 0
    THEN /\ handleFinish(ts, TRUE, now)
         /\ timeLeft' = 0
    ELSE /\ timerState' = ts
         /\ view' = "FOCUS"
         /\ timeLeft' = calculateInitialTimeLeft(ts, now)
         /\ UNCHANGED <<projects, history>>

focusRest ==
    <<calendarVars, runVars, resizeVars, steps, instance, lastDrop, plannerVars,
      integrationVars, sidebar>>

\* the focus button of a task row or board card of the Planner
handleStartFocus ==
    /\ view = "PLANNER"
    /\ Len(history) < MaxHistory
    /\ \E e \in Range(AllEntries(projects)) :
          /\ activeContextProject' = ProjectById(projects, e.projectId)
          /\ activeContextSubtask' = e.task
          /\ mountFocusTimer(IF ~timerState.isActive
                             THEN [timerState EXCEPT
                                     !.projectId = e.projectId,
                                     !.subtaskId = e.task.id,
                                     !.duration = e.task.estimatedMinutes * 60]
                             ELSE timerState)
    /\ UNCHANGED <<focusRest, now>>

\* Layout: the user picks another view in the navigation
setView ==
    /\ Len(history) < MaxHistory
    /\ \E v \in {"PLANNER", "FOCUS", "DASHBOARD"} :
          /\ v # view
          /\ IF v = "FOCUS" THEN mountFocusTimer(timerState)
             ELSE /\ view' = v
                  /\ UNCHANGED <<projects, history, timerState, timeLeft>>
    /\ UNCHANGED <<focusRest, now, activeContextProject, activeContextSubtask>>

\* the play / pause button of FocusTimer
toggleTimer ==
    /\ view = "FOCUS"
    /\ Len(history) < MaxHistory
    /\ IF ~timerState.isActive
       THEN LET started == startTimer(timerState, now, timeLeft,
                                      activeContextProject, activeContextSubtask)
            IN  \* the sync effect of App runs on the render with the timer active
                /\ activeContextProject' = runningProject(projects, started)
                /\ activeContextSubtask' = runningSubtask(projects, started)
                /\ IF timeLeft <= 0
                   THEN handleFinish(started, TRUE, now) /\ timeLeft' = 0
                   ELSE /\ timerState' = started
                        /\ UNCHANGED <<projects, history, view, timeLeft>>
       ELSE /\ timerState' = pauseTimer(timerState, timeLeft)
            /\ UNCHANGED <<projects, history, view, timeLeft,
                           activeContextProject, activeContextSubtask>>
    /\ UNCHANGED <<focusRest, now>>

\* a choice in the task selector of FocusTimer: a task of a project, or
\* Deep Work without a task
switchContext ==
    /\ view = "FOCUS"
    /\ Len(history) < MaxHistory
    /\ ~timerState.isActive
    /\ \E choice \in {[project |-> ProjectById(projects, e.projectId), task |-> e.task] :
                         e \in Range(AllEntries(projects))}
                     \cup {[project |-> GENERAL_PROJECT, task |-> NoTask]} :
          LET newDuration == IF choice.task # NoTask /\ choice.task.estimatedMinutes > 0
                             THEN choice.task.estimatedMinutes * 60
                             ELSE DefaultMinutes * 60
          IN  /\ activeContextProject' = choice.project
              /\ activeContextSubtask' = choice.task
              /\ timerState' = [timerState EXCEPT
                                  !.projectId = choice.project.id,
                                  !.subtaskId = choice.task.id,
                                  !.duration = newDuration,
                                  !.startTime = Null,
                                  !.endTime = Null]
              /\ timeLeft' = newDuration
    /\ UNCHANGED <<focusRest, now, projects, history, view>>

\* the End Session dialog of FocusTimer: the session is given up
stopSession ==
    /\ view = "FOCUS"
    /\ Len(history) < MaxHistory
    /\ handleFinish(timerState, FALSE, now)
    /\ UNCHANGED <<focusRest, now, timeLeft, activeContextProject, activeContextSubtask>>

\* time passes; with FocusTimer mounted and the timer running the interval
\* refreshes the dial and ends the session when nothing is left
syncTime ==
    /\ now + TickSeconds <= MaxNow
    /\ Len(history) < MaxHistory
    /\ now' = now + TickSeconds
    /\ IF view = "FOCUS" /\ timerState.isActive /\ timerState.endTime # Null
       THEN IF timerState.endTime - now' <= 0
            THEN handleFinish(timerState, TRUE, now') /\ timeLeft' = 0
            ELSE /\ timeLeft' = timerState.endTime - now'
                 /\ UNCHANGED <<projects, history, timerState, view>>
       ELSE UNCHANGED <<projects, history, timerState, view, timeLeft>>
    /\ UNCHANGED <<focusRest, activeContextProject, activeContextSubtask>>

FocusInit ==
    /\ FocusProjects
    /\ viewMode = "WEEK"
    /\ currentDate = Today * MinutesPerDay + MountMinute
    /\ isAutoScheduling = FALSE
    /\ pending = <<>>
    /\ occupied = <<>>
    /\ runLog = <<>>
    /\ resizingTask = NoResize
    /\ currentResizeHeight = NullHeight
    /\ mouseY = 0
    /\ lastResize = [startHeight |-> 0, delta |-> 0, minutes |-> 0]
    /\ steps = 0
    /\ view = "PLANNER"
    /\ instance = 0
    /\ lastDrop = NoDrop
    /\ InitPlanner
    /\ InitFocus
    /\ InitIntegrations
    /\ sidebar = NoSidebar

FocusNext ==
    \/ handleStartFocus
    \/ setView
    \/ toggleTimer
    \/ switchContext
    \/ stopSession
    \/ syncTime

FocusSpec == FocusInit /\ [][FocusNext]_vars

----------------------------------------------------------------------------
(* Calendar integrations: the connect buttons of IntegrationsModal and the   *)
(* 1500 ms timer of handleConnectProvider.                                   *)

Providers == {[name |-> "Google", type |-> "google"],
              [name |-> "Outlook", type |-> "outlook"]}

toLowerCase(name) ==
    CASE name = "Google" -> "google"
      [] name = "Outlook" -> "outlook"
      [] OTHER -> name

\* createEvent: an event of the week of `date`
createEvent(date, n, dayOffset, hour, duration) ==
    Task("x" \o ToString(n), "TODO", duration,
         setHours(addDays(getStartOfWeek(date), dayOffset), hour, 0), <<>>)

mockEvents(type, date, n) ==
    IF type = "google"
    THEN << createEvent(date, n + 1, 1, 10, 30),
            createEvent(date, n + 2, 3, 14, 60),
            createEvent(date, n + 3, 4, 11, 45) >>
    ELSE IF type = "outlook"
         THEN << createEvent(date, n + 1, 1, 9, 60),
                 createEvent(date, n + 2, 2, 15, 30),
                 createEvent(date, n + 3, 5, 10, 60) >>
         ELSE <<>>

\* the disabled attribute of a connect button and the guard of the handler
ConnectEnabled(provider) ==
    /\ provider.name \notin Range(connectedApps)
    /\ isConnecting # provider.name

\* click on an enabled connect button
handleConnectProvider ==
    /\ view = "CALENDAR"
    /\ Len(connectTimers) + Len(connectedApps) < MaxConnects
    /\ \E provider \in Providers :
          /\ ConnectEnabled(provider)
          /\ isConnecting' = provider.name
          /\ connectTimers' = Append(connectTimers,
                                     [providerName |-> provider.name,
                                      type |-> provider.type,
                                      currentDate |-> currentDate])
    /\ UNCHANGED <<projects, calendarVars, runVars, resizeVars, steps, appVars,
                   lastDrop, plannerVars, focusVars, connectedApps, sidebar>>

\* the callback of the oldest connect timer
ConnectTimer ==
    /\ connectTimers # <<>>
    /\ LET c == Head(connectTimers)
           events == mockEvents(c.type, c.currentDate, made)
       IN  /\ connectedApps' = Append(connectedApps, c.providerName)
           /\ isConnecting' = ""
           /\ made' = made + Len(events)
           /\ projects' = IF Len(events) > 0
                          THEN Append(projects,
                                      [id |-> "ext-" \o toLowerCase(c.providerName),
                                       subtasks |-> events])
                          ELSE projects
    /\ connectTimers' = Tail(connectTimers)
    /\ UNCHANGED <<calendarVars, runVars, resizeVars, steps, appVars, lastDrop,
                   iteratingTasks, requests, lastCall, stats, focusVars, sidebar>>

ConnectNext ==
    \/ handleConnectProvider
    \/ ConnectTimer
    \/ handleNext

ConnectSpec == Init /\ [][ConnectNext]_vars

----------------------------------------------------------------------------
(* The sidebar of the Planner: the counters and the lists they label.        *)

startToday == Today * MinutesPerDay
endToday == startToday + MinutesPerDay

\* traverse of counts: the counters after the forEach over tasks; a completed
\* task returns from the callback before its subtasks are visited
RECURSIVE countsTraverse(_, _)
countsTraverse(tasks, acc) ==
    IF tasks = <<>> THEN acc
    ELSE LET t == Head(tasks)
             counted ==
                 IF t.scheduledDate = Undefined
                 THEN [acc EXCEPT !.inbox = @ + 1]
                 ELSE IF t.scheduledDate >= startToday /\ t.scheduledDate < endToday
                      THEN [acc EXCEPT !.today = @ + 1]
                      ELSE IF t.scheduledDate >= endToday
                           THEN [acc EXCEPT !.upcoming = @ + 1]
                           ELSE acc
         IN  countsTraverse(Tail(tasks),
                            IF t.status = "COMPLETED" THEN acc
                            ELSE countsTraverse(t.subtasks, counted))

RECURSIVE countsProjects(_, _)
countsProjects(ps, acc) ==
    IF ps = <<>> THEN acc
    ELSE countsProjects(Tail(ps), countsTraverse(Head(ps).subtasks, acc))

counts(ps) == countsProjects(ps, [inbox |-> 0, today |-> 0, upcoming |-> 0])

\* filteredData.tasks for the three date filters
filteredData(ps, activeFilter) ==
    LET allTasks == AllEntries(ps)
    IN  IF activeFilter = "INBOX"
        THEN SelectSeq(allTasks, LAMBDA item :
                 item.task.scheduledDate = Undefined /\ item.task.status # "COMPLETED")
        ELSE IF activeFilter = "TODAY"
             THEN SelectSeq(allTasks, LAMBDA item :
                      /\ item.task.status # "COMPLETED"
                      /\ item.task.scheduledDate # Undefined
                      /\ item.task.scheduledDate >= startToday
                      /\ item.task.scheduledDate < endToday)
             ELSE SelectSeq(allTasks, LAMBDA item :
                      /\ item.task.status # "COMPLETED"
                      /\ item.task.scheduledDate # Undefined
                      /\ item.task.scheduledDate >= endToday)

SidebarDates == {Undefined, startToday - 60, startToday + 600, endToday + 600}

SidebarProjects ==
    \E ss, sa, sb \in {"TODO", "COMPLETED"}, ds, da, db \in SidebarDates :
        projects =
            << [id |-> "inbox",
                subtasks |-> << Task("s", ss, 60, ds,
                                  << Task("a", sa, 30, da, <<>>) >>) >>],
               [id |-> "p1",
                subtasks |-> << Task("b", sb, 20, db, <<>>) >>] >>

SidebarInit ==
    /\ SidebarProjects
    /\ viewMode = "WEEK"
    /\ currentDate = Today * MinutesPerDay + MountMinute
    /\ isAutoScheduling = FALSE
    /\ pending = <<>>
    /\ occupied = <<>>
    /\ runLog = <<>>
    /\ resizingTask = NoResize
    /\ currentResizeHeight = NullHeight
    /\ mouseY = 0
    /\ lastResize = [startHeight |-> 0, delta |-> 0, minutes |-> 0]
    /\ steps = 0
    /\ view = "PLANNER"
    /\ instance = 0
    /\ lastDrop = NoDrop
    /\ InitPlanner
    /\ InitFocus
    /\ InitIntegrations
    /\ sidebar = NoSidebar

\* the Planner renders the sidebar and, filter by filter, the list
renderSidebar ==
    /\ view = "PLANNER"
    /\ lastCall.n < MaxSteps
    /\ sidebar' = [inbox |-> counts(projects).inbox,
                   today |-> counts(projects).today,
                   upcoming |-> counts(projects).upcoming,
                   inboxList |-> Len(filteredData(projects, "INBOX")),
                   todayList |-> Len(filteredData(projects, "TODAY")),
                   upcomingList |-> Len(filteredData(projects, "UPCOMING"))]
    /\ lastCall' = [n |-> lastCall.n + 1, op |-> "sidebar",
                    projectId |-> "", taskId |-> ""]
    /\ UNCHANGED <<projects, calendarVars, runVars, resizeVars, steps, appVars,
                   lastDrop, focusVars, integrationVars, iteratingTasks, requests,
                   made, stats>>

SidebarNext ==
    \/ renderSidebar

SidebarSpec == SidebarInit /\ [][SidebarNext]_vars

----------------------------------------------------------------------------
(* Vocabulary of the properties.  A run is an entry of runLog: the queue   *)
(* and scheduled list its closure captured, the store at that moment       *)
(* (base), the horizon days and the updates it produced.                   *)

Runs == Range(runLog)

Updates(r) == Range(r.updates)

\* position in the queue of the task an update is for
QueuePos(r, u) ==
    CHOOSE q \in 1..Len(r.queue) :
        r.queue[q].projectId = u.projectId /\ r.queue[q].task.id = u.taskId

EffectiveMinutes(est) == IF est < 15 THEN 15 ELSE est

\* minutes an update claims: max(15, estimatedMinutes) of its task
ClaimLen(r, u) == EffectiveMinutes(r.queue[QueuePos(r, u)].task.estimatedMinutes)

\* [s1, s1 + l1) and [s2, s2 + l2) have an instant in common
Intersects(s1, l1, s2, l2) == Max(s1, s2) < Min(s1 + l1, s2 + l2)

HorizonDays(r) == [i \in 1..Len(r.days) |-> dayOf(r.days[i])]

GridStarts(len) == {c \in 540..(1020 - len) : c % 15 = 0}

\* [c, c + len) of day d meets a task of the scheduled list of run r that
\* starts on day d
MeetsScheduled(r, d, c, len) ==
    \E e \in Range(r.scheduled) :
        /\ dayOf(e.task.scheduledDate) = d
        /\ Intersects(c, len, minuteOfDay(e.task.scheduledDate), e.task.estimatedMinutes)

\* [c, c + len) of day d meets the claim of a task placed before position q
MeetsEarlier(r, q, d, c, len) ==
    \E u \in Updates(r) :
        /\ QueuePos(r, u) < q
        /\ dayOf(u.date) = d
        /\ Intersects(c, len, minuteOfDay(u.date), ClaimLen(r, u))

\* [c, c + len) of day d is free when run r reaches queue position q
FreeAt(r, q, d, c, len) ==
    ~MeetsScheduled(r, d, c, len) /\ ~MeetsEarlier(r, q, d, c, len)

IsPlaced(r, q) ==
    \E u \in Updates(r) : QueuePos(r, u) = q

----------------------------------------------------------------------------
\* C1: within one run, two distinct tasks placed on the same day never have
\* intersecting claimed intervals [start, start + max(15, estimatedMinutes)).
C1_NoOverlapWithinRun ==
    \A r \in Runs : \A i, j \in 1..Len(r.updates) :
        (i # j /\ dayOf(r.updates[i].date) = dayOf(r.updates[j].date))
        => ~Intersects(r.updates[i].date, ClaimLen(r, r.updates[i]),
                       r.updates[j].date, ClaimLen(r, r.updates[j]))

C1_Witness ==
    \E r \in Runs : \E i, j \in 1..Len(r.updates) :
        /\ i # j
        /\ dayOf(r.updates[i].date) = dayOf(r.updates[j].date)
        /\ r.updates[j].date = r.updates[i].date + ClaimLen(r, r.updates[i])

\* C2 as stated: a placed task's claimed interval never intersects the whole
\* interval [scheduledDate, scheduledDate + estimatedMinutes) of a task that
\* was scheduled and not completed when the run was invoked.
C2_NoOverlapWithExisting ==
    \A r \in Runs : \A u \in Updates(r) : \A e \in Range(AllEntries(r.base)) :
        (e.task.status # "COMPLETED" /\ e.task.scheduledDate # Undefined)
        => ~Intersects(u.date, ClaimLen(r, u),
                       e.task.scheduledDate, e.task.estimatedMinutes)

\* the part of a task's interval that lies on the day the task starts on
SameDayMinutes(task) ==
    Min(task.estimatedMinutes, MinutesPerDay - minuteOfDay(task.scheduledDate))

\* C2 amended: a placed task's claimed interval never intersects the part of
\* such a task's interval that lies on the calendar day the task starts on.
C2_NoOverlapWithExistingSameDay ==
    \A r \in Runs : \A u \in Updates(r) : \A e \in Range(AllEntries(r.base)) :
        (e.task.status # "COMPLETED" /\ e.task.scheduledDate # Undefined)
        => ~Intersects(u.date, ClaimLen(r, u),
                       e.task.scheduledDate, SameDayMinutes(e.task))

C2_Witness ==
    \E r \in Runs : \E u \in Updates(r) : \E e \in Range(AllEntries(r.base)) :
        /\ e.task.status # "COMPLETED"
        /\ e.task.scheduledDate # Undefined
        /\ e.task.estimatedMinutes > 0
        /\ dayOf(e.task.scheduledDate) = dayOf(u.date)
        /\ u.date >= e.task.scheduledDate + e.task.estimatedMinutes
        /\ u.date < e.task.scheduledDate + e.task.estimatedMinutes + 15

\* C3: every placed task starts on the 15-minute grid at or after 09:00 and
\* its claimed interval ends at or before 17:00, for day and week horizons.
C3_WorkingHours ==
    \A r \in Runs : \A u \in Updates(r) :
        /\ minuteOfDay(u.date) >= 540
        /\ minuteOfDay(u.date) + ClaimLen(r, u) <= 1020
        /\ minuteOfDay(u.date) % 15 = 0

C3_Witness ==
    \E r \in Runs : \E u \in Updates(r) :
        /\ Len(r.days) = 1
        /\ minuteOfDay(r.days[1]) # 0
        /\ minuteOfDay(u.date) > 540

\* C4: each placed task sits at the earliest (horizon day, grid start) whose
\* claimed interval is free of the scheduled list and of the tasks placed
\* before it in the run.
C4_FirstFit ==
    \A r \in Runs : \A u \in Updates(r) :
        LET q == QueuePos(r, u)
            len == ClaimLen(r, u)
        IN  \E i \in 1..Len(r.days) :
                /\ HorizonDays(r)[i] = dayOf(u.date)
                /\ minuteOfDay(u.date) \in GridStarts(len)
                /\ FreeAt(r, q, dayOf(u.date), minuteOfDay(u.date), len)
                /\ \A c \in GridStarts(len) :
                      c < minuteOfDay(u.date) => ~FreeAt(r, q, dayOf(u.date), c, len)
                /\ \A j \in 1..(i - 1) : \A c \in GridStarts(len) :
                      ~FreeAt(r, q, HorizonDays(r)[j], c, len)

\* 09:00-09:20 is taken by a scheduled task and a task lands at 09:30
C4_Witness ==
    \E r \in Runs : \E u \in Updates(r) : \E e \in Range(r.scheduled) :
        /\ dayOf(e.task.scheduledDate) = dayOf(u.date)
        /\ minuteOfDay(e.task.scheduledDate) = 540
        /\ e.task.estimatedMinutes = 20
        /\ minuteOfDay(u.date) = 570

\* C5: a queued task gets no update exactly when no grid start of any
\* horizon day is free for its effective duration; a placed task lands on a
\* horizon day; the rest of the queue is processed all the same.
C5_UnplacedIffInfeasible ==
    \A r \in Runs :
        /\ \A q \in 1..Len(r.queue) :
              LET len == EffectiveMinutes(r.queue[q].task.estimatedMinutes)
              IN  IsPlaced(r, q) <=>
                     \E i \in 1..Len(r.days) : \E c \in GridStarts(len) :
                         FreeAt(r, q, HorizonDays(r)[i], c, len)
        /\ \A u \in Updates(r) : dayOf(u.date) \in Range(HorizonDays(r))

C5_Witness ==
    \E r \in Runs : \E q1, q2 \in 1..Len(r.queue) :
        /\ q1 < q2
        /\ ~IsPlaced(r, q1)
        /\ IsPlaced(r, q2)

QueueKey(r) ==
    [i \in 1..Len(r.queue) |->
        <<r.queue[i].projectId, r.queue[i].task.id, r.queue[i].task.estimatedMinutes>>]

ScheduledKey(r) ==
    {<<e.projectId, e.task.id, e.task.scheduledDate, e.task.estimatedMinutes>> :
        e \in Range(r.scheduled)}

SameInputs(r1, r2) ==
    /\ QueueKey(r1) = QueueKey(r2)
    /\ ScheduledKey(r1) = ScheduledKey(r2)
    /\ HorizonDays(r1) = HorizonDays(r2)

\* C6: two runs with the same queue (order and durations), the same scheduled
\* tasks and the same horizon produce the same set of placements.
C6_Deterministic ==
    \A i, j \in 1..Len(runLog) :
        SameInputs(runLog[i], runLog[j]) => Updates(runLog[i]) = Updates(runLog[j])

C6_Witness ==
    \E i, j \in 1..Len(runLog) :
        /\ i < j
        /\ SameInputs(runLog[i], runLog[j])
        /\ runLog[i].updates # <<>>
        /\ runLog[j].updates # <<>>

\* [c, c + len) of day d meets a scheduled, non-completed task of the store
MeetsListed(ps, d, c, len) ==
    \E e \in Range(AllEntries(ps)) :
        /\ e.task.status # "COMPLETED"
        /\ e.task.scheduledDate # Undefined
        /\ dayOf(e.task.scheduledDate) = d
        /\ Intersects(c, len, minuteOfDay(e.task.scheduledDate), e.task.estimatedMinutes)

\* C7: a completed task is neither queued nor counted as occupancy: every
\* grid start a placed task passed over is taken by a non-completed scheduled
\* task of the store or by an earlier placement of the run.
C7_CompletedExcluded ==
    \A r \in Runs :
        /\ \A e \in Range(r.queue) \cup Range(r.scheduled) : e.task.status # "COMPLETED"
        /\ \A u \in Updates(r) :
              LET q == QueuePos(r, u)
                  len == ClaimLen(r, u)
              IN  \A i \in 1..Len(r.days) : \A c \in GridStarts(len) :
                      (\/ HorizonDays(r)[i] < dayOf(u.date)
                       \/ (HorizonDays(r)[i] = dayOf(u.date) /\ c < minuteOfDay(u.date)))
                      => (\/ MeetsListed(r.base, HorizonDays(r)[i], c, len)
                          \/ MeetsEarlier(r, q, HorizonDays(r)[i], c, len))

C7_Witness ==
    \E r \in Runs : \E u \in Updates(r) : \E e \in Range(AllEntries(r.base)) :
        /\ e.task.status = "COMPLETED"
        /\ e.task.estimatedMinutes > 0
        /\ e.task.scheduledDate = u.date

LastRun == runLog[Len(runLog)]

ScheduledMinutes(r, d) ==
    UNION {{m \in minuteOfDay(e.task.scheduledDate)..
                  (minuteOfDay(e.task.scheduledDate) + e.task.estimatedMinutes - 1) :
               m < 1440} :
           e \in {x \in Range(r.scheduled) : dayOf(x.task.scheduledDate) = d}}

ClaimedMinutes(r, d) ==
    UNION {{minuteOfDay(u.date) + k : k \in 0..(ClaimLen(r, u) - 1)} :
           u \in {x \in Updates(r) : dayOf(x.date) = d}}

\* C8: the grid a run ends with is the scheduled list's marks plus, for each
\* placed task, max(15, estimatedMinutes) minutes from its start (15 for a
\* task of 0 minutes), and no later task of the run starts inside them.
C8_MinimumDuration ==
    runLog # <<>> =>
        /\ DOMAIN occupied = Range(HorizonDays(LastRun))
        /\ \A d \in DOMAIN occupied :
              occupied[d] = ScheduledMinutes(LastRun, d) \cup ClaimedMinutes(LastRun, d)
        /\ \A u1, u2 \in Updates(LastRun) :
              QueuePos(LastRun, u1) < QueuePos(LastRun, u2)
              => ~(u1.date <= u2.date /\ u2.date < u1.date + ClaimLen(LastRun, u1))

C8_Witness ==
    /\ runLog # <<>>
    /\ \E u1, u2 \in Updates(LastRun) :
          /\ LastRun.queue[QueuePos(LastRun, u1)].task.estimatedMinutes = 0
          /\ QueuePos(LastRun, u1) < QueuePos(LastRun, u2)
          /\ u2.date = u1.date + 15

EntryOf(ps, projectId, taskId) ==
    CHOOSE e \in Range(AllEntries(ps)) : e.projectId = projectId /\ e.task.id = taskId

Abs(x) == IF x < 0 THEN 0 - x ELSE x

\* C9: a resize commit sets estimatedMinutes to the multiple of 15 nearest to
\* the last candidate height h = max(15, start height + pointer delta), never
\* below 15; height 30 and delta +22 commit 45.
C9_ResizeCommit ==
    [][(resizingTask # NoResize /\ resizingTask' = NoResize
           /\ currentResizeHeight # NullHeight)
       => LET raw == resizingTask.startHeight + (mouseY - resizingTask.startY)
              h == IF raw < 15 THEN 15 ELSE raw
              c == EntryOf(projects', resizingTask.projectId,
                           resizingTask.taskId).task.estimatedMinutes
          IN  /\ currentResizeHeight = h
              /\ c >= 15
              /\ c % 15 = 0
              /\ 2 * Abs(h - c) < 15
              /\ (resizingTask.startHeight = 30 /\ raw = 52) => c = 45]_vars

C9_Witness ==
    /\ lastResize.startHeight > 0
    /\ lastResize.startHeight + lastResize.delta <= 0
    /\ lastResize.minutes = 15
    /\ resizingTask = NoResize

Row(e) ==
    [projectId |-> e.projectId, id |-> e.task.id, status |-> e.task.status,
     estimatedMinutes |-> e.task.estimatedMinutes,
     scheduledDate |-> e.task.scheduledDate,
     children |-> [i \in 1..Len(e.task.subtasks) |-> e.task.subtasks[i].id]]

Rows(ps) == [i \in 1..Len(AllEntries(ps)) |-> Row(AllEntries(ps)[i])]

UpdatesFor(r, row) ==
    {u \in Updates(r) : u.projectId = row.projectId /\ u.taskId = row.id}

\* C10: the step that completes a run gives every placed task its new
\* scheduledDate at once and changes nothing else of the store; the click
\* that starts a run leaves the store as it is.
C10_AtomicApply ==
    [][/\ Len(runLog') > Len(runLog)
          => /\ Len(Rows(projects')) = Len(Rows(projects))
             /\ \A i \in 1..Len(Rows(projects)) :
                   LET row == Rows(projects)[i]
                       ups == UpdatesFor(runLog'[Len(runLog')], row)
                   IN  IF ups = {} THEN Rows(projects')[i] = row
                       ELSE \E u \in ups :
                               Rows(projects')[i] = [row EXCEPT !.scheduledDate = u.date]
       /\ Len(pending') > Len(pending) => projects' = projects]_vars

C10_Witness ==
    /\ runLog # <<>>
    /\ Len(LastRun.updates) >= 2
    /\ \A u \in Updates(LastRun) :
          EntryOf(projects, u.projectId, u.taskId).task.scheduledDate = u.date

----------------------------------------------------------------------------
\* C11: at most one Auto-Scheduler run is pending (invoked, updates not yet
\* applied) at any time, whatever the user clicks, including view-mode
\* switches and leaving and re-entering the calendar during the delay.
C11_AtMostOnePending == Len(pending) <= 1

\* a scheduled, non-completed task of store ps that run r does not move
StaysScheduled(r, ps, e) ==
    /\ e \in Range(AllEntries(ps))
    /\ e.task.status # "COMPLETED"
    /\ e.task.scheduledDate # Undefined
    /\ UpdatesFor(r, [projectId |-> e.projectId, id |-> e.task.id]) = {}

\* C12: the grid of a run reflects the tasks scheduled when the timer fires:
\* no placed task intersects, on its day, a task that is scheduled and not
\* completed in the store at that moment (a task dropped on a slot while the
\* run was pending included).
C12_GridBuiltAtFireTime ==
    \A r \in Runs : \A u \in Updates(r) : \A e \in Range(AllEntries(r.fired)) :
        StaysScheduled(r, r.fired, e)
        => ~Intersects(u.date, ClaimLen(r, u),
                       e.task.scheduledDate, SameDayMinutes(e.task))

----------------------------------------------------------------------------
(* Drops.  lastDrop.n counts the drops, so a step that changes it is a     *)
(* drop; lastDrop' then holds its target, payload, cell and the date the   *)
(* named task had before.                                                  *)

IsDropStep == lastDrop'.n # lastDrop.n

\* a payload that names a task of the project it names
ValidRef(ps, data) ==
    /\ data.kind = "json"
    /\ \E e \in Range(AllEntries(ps)) :
          e.projectId = data.projectId /\ e.task.id = data.taskId

IsRowOf(row, data) == row.projectId = data.projectId /\ row.id = data.taskId

\* store ps2 is store ps1 with the scheduledDate of the named task set to date
OnlyDateOfRefChanged(ps1, ps2, data, date) ==
    /\ Len(Rows(ps2)) = Len(Rows(ps1))
    /\ \A i \in 1..Len(Rows(ps1)) :
          Rows(ps2)[i] = IF IsRowOf(Rows(ps1)[i], data)
                         THEN [Rows(ps1)[i] EXCEPT !.scheduledDate = date]
                         ELSE Rows(ps1)[i]

\* C13: a drop of a valid task reference on a cell sets the task's
\* scheduledDate to the cell's day at hour:00 (the day's midnight without an
\* hour), scheduled before or not, slot taken or not, and changes nothing else.
C13_DropOverwrites ==
    [][(IsDropStep /\ lastDrop'.target = "cell" /\ ValidRef(projects, lastDrop'.data))
       => OnlyDateOfRefChanged(projects, projects', lastDrop'.data,
             (lastDrop'.date \div 1440) * 1440
                + (IF lastDrop'.hour = NoHour THEN 0 ELSE lastDrop'.hour * 60))]_vars

\* a task was dropped onto the instant another task is scheduled at
C13_Witness ==
    /\ lastDrop.target = "cell"
    /\ lastDrop.hour # NoHour
    /\ ValidRef(projects, lastDrop.data)
    /\ \E e1, e2 \in Range(AllEntries(projects)) :
          /\ IsRowOf(Row(e1), lastDrop.data)
          /\ e2.task.id # e1.task.id
          /\ e2.task.status # "COMPLETED"
          /\ e2.task.scheduledDate = e1.task.scheduledDate
          /\ e1.task.scheduledDate # lastDrop.was

\* C14: a drop on a cell or on the backlog whose payload is missing, is not
\* JSON, or names no existing task of an existing project changes no project
\* and no task, and the handler ends by returning, not by throwing.
C14_BadPayloadIgnored ==
    [][(IsDropStep /\ ~ValidRef(projects, lastDrop'.data))
       => /\ projects' = projects
          /\ lastDrop'.outcome \in {"returned", "caught", "called"}
          /\ lastDrop'.data.kind = "empty" => lastDrop'.outcome = "returned"]_vars

C14_Witness ==
    /\ lastDrop.target = "cell"
    /\ lastDrop.data.kind = "json"
    /\ ~ValidRef(projects, lastDrop.data)
    /\ lastDrop.data.taskId = "a"
    /\ lastDrop.data.projectId = "p1"

\* C15: a drop of a valid task reference on the backlog clears the task's
\* scheduledDate and changes nothing else; when the task was unscheduled
\* already the store stays as it is; the task is then once in the queue.
C15_UnscheduleIdempotent ==
    [][(IsDropStep /\ lastDrop'.target = "backlog" /\ ValidRef(projects, lastDrop'.data))
       => /\ OnlyDateOfRefChanged(projects, projects', lastDrop'.data, Undefined)
          /\ lastDrop'.was = Undefined => projects' = projects
          /\ handleUpdateTask(projects', lastDrop'.data.projectId,
                              lastDrop'.data.taskId,
                              [scheduledDate |-> Undefined]) = projects'
          /\ Cardinality({q \in 1..Len(unscheduledTasks(projects')) :
                 IsRowOf(Row(unscheduledTasks(projects')[q]), lastDrop'.data)}) = 1]_vars

\* an unscheduled task was dropped on the backlog
C15_Witness ==
    /\ lastDrop.target = "backlog"
    /\ ValidRef(projects, lastDrop.data)
    /\ lastDrop.was = Undefined
    /\ DateOfRef(projects, lastDrop.data) = Undefined

----------------------------------------------------------------------------
\* the cells one task marks on day d: [s, min(s + est, 1440)) when it starts
\* on d at minute s, nothing otherwise
CellsOf(task, d) ==
    IF dayOf(task.scheduledDate) = d
    THEN {m \in 0..1439 : /\ m >= minuteOfDay(task.scheduledDate)
                          /\ m < minuteOfDay(task.scheduledDate) + task.estimatedMinutes}
    ELSE {}

\* the scheduled, non-completed tasks of a store
Booked(ps) ==
    {e.task : e \in {x \in Range(AllEntries(ps)) :
                        x.task.status # "COMPLETED" /\ x.task.scheduledDate # Undefined}}

\* C16: the grid a run builds has one entry per horizon day, and on each day
\* exactly the cells [s, min(s + d, 1440)) of the scheduled, non-completed
\* tasks that start on that day: nothing wraps past midnight and tasks of days
\* outside the horizon mark nothing.
C16_OccupancyCells ==
    \A r \in Runs :
        /\ DOMAIN r.built = Range(HorizonDays(r))
        /\ \A d \in DOMAIN r.built :
              r.built[d] = UNION {CellsOf(t, d) : t \in Booked(r.base)}

\* a task at 23:00 that runs past midnight, both days in the horizon
C16_Witness ==
    \E r \in Runs : \E t \in Booked(r.base) :
        /\ minuteOfDay(t.scheduledDate) + t.estimatedMinutes > 1440
        /\ dayOf(t.scheduledDate) \in DOMAIN r.built
        /\ (dayOf(t.scheduledDate) + 1) \in DOMAIN r.built
        /\ r.built[dayOf(t.scheduledDate)] = 1380..1439
        /\ r.built[dayOf(t.scheduledDate) + 1] = {}

----------------------------------------------------------------------------
\* number of runs invoked so far
Invoked == Len(pending) + Len(runLog)

\* C17: a run cannot be cancelled.  Every invoked run is eventually logged as
\* completed, also when the user has left the calendar; the step that
\* completes it takes it off the pending timers, logs it once and leaves every
\* placed task with its new scheduledDate in the store; no other step removes
\* a pending run.
C17_RunAlwaysApplied ==
    /\ \A k \in 1..MaxRuns : (Invoked >= k) ~> (Len(runLog) >= k)
    /\ [][/\ Invoked' >= Invoked
          /\ Len(pending') < Len(pending)
             => /\ pending' = Tail(pending)
                /\ Len(runLog') = Len(runLog) + 1
                /\ \A u \in Updates(runLog'[Len(runLog')]) :
                      EntryOf(projects', u.projectId, u.taskId).task.scheduledDate = u.date
          /\ Len(runLog') > Len(runLog) => Len(pending') < Len(pending)]_vars

\* a run completed while the calendar was not mounted, and its placements
\* are in the store
C17_Witness ==
    /\ runLog # <<>>
    /\ LastRun.firedIn # "CALENDAR"
    /\ LastRun.updates # <<>>
    /\ \A u \in Updates(LastRun) :
          EntryOf(projects, u.projectId, u.taskId).task.scheduledDate = u.date

----------------------------------------------------------------------------
IsCallStep(op) == lastCall'.n # lastCall.n /\ lastCall'.op = op

\* ids of a task and of everything below it
RECURSIVE SubtreeIds(_)
SubtreeIds(task) ==
    {task.id} \cup UNION {SubtreeIds(task.subtasks[i]) : i \in 1..Len(task.subtasks)}

\* the rows of a store without the tasks whose id is in gone, as children too
RowsWithout(ps, gone) ==
    LET kept == SelectSeq(Rows(ps), LAMBDA row : row.id \notin gone)
    IN  [i \in 1..Len(kept) |->
            [kept[i] EXCEPT
                !.children = SelectSeq(@, LAMBDA id : id \notin gone)]]

\* C18: deleting a task by id removes that task and its descendants and
\* nothing else: every other task keeps its project, id, fields, children
\* (so its parent) and its place in the order; other projects are untouched;
\* the wizard's deleteTaskInTree computes the same tree.
C18_DeleteSubtree ==
    [][IsCallStep("deleteTask")
       => LET e == EntryOf(projects, lastCall'.projectId, lastCall'.taskId)
              gone == SubtreeIds(e.task)
          IN  /\ Rows(projects') = RowsWithout(projects, gone)
              /\ \A i \in 1..Len(projects) :
                    /\ projects'[i].id = projects[i].id
                    /\ projects[i].id # lastCall'.projectId => projects'[i] = projects[i]
                    /\ projects[i].id = lastCall'.projectId
                       => projects'[i].subtasks =
                             deleteTaskInTree(projects[i].subtasks, lastCall'.taskId)]_vars

\* task a, below s and above g, was deleted: g is gone, s and c are left
C18_Witness ==
    /\ lastCall = [n |-> 1, op |-> "deleteTask", projectId |-> "inbox", taskId |-> "a"]
    /\ {Rows(projects)[i].id : i \in 1..Len(Rows(projects))} = {"s", "c", "b"}

----------------------------------------------------------------------------
ProjectOf(ps, projectId) == CHOOSE p \in Range(ps) : p.id = projectId

\* the leaves of a tree: the tasks without children, wherever they sit
LeafTasks(subtasks) ==
    SelectSeq(flattenTasks(subtasks), LAMBDA t : Len(t.subtasks) = 0)

RECURSIVE SumMinutes(_)
SumMinutes(tasks) ==
    IF tasks = <<>> THEN 0 ELSE Head(tasks).estimatedMinutes + SumMinutes(Tail(tasks))

\* n / d rounded to the nearest integer, halves up, in exact arithmetic
NearestInt(n, d) == (2 * n + d) \div (2 * d)

\* C19: the progress figures count the leaf tasks only: total is the number
\* of leaves, completed the number of leaves with status COMPLETED, the hours
\* are those of the leaves' minutes, and percent is 100 * completed / total
\* rounded to the nearest integer, 0 for a tree without leaves; containers
\* do not count.
C19_LeafStats ==
    lastCall.op = "stats"
    => LET leaves == LeafTasks(ProjectOf(projects, lastCall.projectId).subtasks)
           done == SelectSeq(leaves, LAMBDA t : t.status = "COMPLETED")
       IN  /\ stats.total = Len(leaves)
           /\ stats.completed = Len(done)
           /\ stats.totalHours = NearestInt(SumMinutes(leaves), 6)
           /\ stats.completedHours = NearestInt(SumMinutes(done), 6)
           /\ stats.percent = IF Len(leaves) = 0 THEN 0
                              ELSE NearestInt(100 * Len(done), Len(leaves))

\* the counting part of C19 alone
C19_LeafCounts ==
    lastCall.op = "stats"
    => LET leaves == LeafTasks(ProjectOf(projects, lastCall.projectId).subtasks)
           done == SelectSeq(leaves, LAMBDA t : t.status = "COMPLETED")
       IN  /\ stats.total = Len(leaves)
           /\ stats.completed = Len(done)
           /\ stats.totalHours = NearestInt(SumMinutes(leaves), 6)
           /\ stats.completedHours = NearestInt(SumMinutes(done), 6)

----------------------------------------------------------------------------
TaskIds(ps) == {AllEntries(ps)[i].task.id : i \in 1..Len(AllEntries(ps))}

\* C20: when the suggestions of a breakdown arrive for a task that is still
\* in the store, the task's children become its children of that moment
\* followed by new TODO leaves with fresh ids, and nothing else changes:
\* whatever happened to the children while the request was pending is kept.
C20_BreakdownKeepsChildren ==
    [][(IsCallStep("breakdown") /\ lastCall'.taskId \in TaskIds(projects))
       => LET before == EntryOf(projects, lastCall'.projectId, lastCall'.taskId).task.subtasks
              after == EntryOf(projects', lastCall'.projectId, lastCall'.taskId).task.subtasks
              added == SubSeq(after, Len(before) + 1, Len(after))
          IN  /\ Len(after) > Len(before)
              /\ SubSeq(after, 1, Len(before)) = before
              /\ \A j \in 1..Len(added) :
                    /\ added[j].id \notin TaskIds(projects)
                    /\ added[j].status = "TODO"
                    /\ added[j].subtasks = <<>>
              /\ projects' = updateTask(projects, lastCall'.projectId, lastCall'.taskId,
                                        [subtasks |-> before \o added])]_vars

\* the part of C20 that does not depend on what happened in between: a
\* breakdown whose task was left alone since the click appends new leaves
C20_QuietBreakdownAppends ==
    [][(IsCallStep("breakdown")
        /\ \E i \in 1..Len(requests) :
              /\ requests[i].task.id = lastCall'.taskId
              /\ lastCall'.taskId \in TaskIds(projects)
              /\ EntryOf(projects, lastCall'.projectId, lastCall'.taskId).task
                    = requests[i].task)
       => LET before == EntryOf(projects, lastCall'.projectId, lastCall'.taskId).task.subtasks
              after == EntryOf(projects', lastCall'.projectId, lastCall'.taskId).task.subtasks
          IN  /\ Len(after) > Len(before)
              /\ SubSeq(after, 1, Len(before)) = before]_vars

----------------------------------------------------------------------------
\* the task of update u is in store ps, not completed, at the instant u gave it
KeepsSlot(ps, u) ==
    \E e \in Range(AllEntries(ps)) :
        /\ e.projectId = u.projectId
        /\ e.task.id = u.taskId
        /\ e.task.status # "COMPLETED"
        /\ e.task.scheduledDate = u.date

\* C21: a slot claimed by a run stays claimed in later runs over the same
\* days: while the placed task is still scheduled there and not completed,
\* no later run starts another task inside [start, start + max(15,
\* estimatedMinutes)), also for a task of 0 minutes.
C21_ClaimKeptAcrossRuns ==
    \A i, j \in 1..Len(runLog) :
        (i < j /\ runLog[i].days = runLog[j].days)
        => \A u1 \in Updates(runLog[i]), u2 \in Updates(runLog[j]) :
              (/\ KeepsSlot(runLog[j].base, u1)
               /\ KeepsSlot(runLog[j].fired, u1)
               /\ u2.taskId # u1.taskId)
              => ~(u1.date <= u2.date
                   /\ u2.date < u1.date + ClaimLen(runLog[i], u1))

\* the same for the tasks whose estimatedMinutes is at least 1
C21_ClaimKeptIfPositive ==
    \A i, j \in 1..Len(runLog) :
        (i < j /\ runLog[i].days = runLog[j].days)
        => \A u1 \in Updates(runLog[i]), u2 \in Updates(runLog[j]) :
              (/\ KeepsSlot(runLog[j].base, u1)
               /\ KeepsSlot(runLog[j].fired, u1)
               /\ u2.taskId # u1.taskId
               /\ runLog[i].queue[QueuePos(runLog[i], u1)].task.estimatedMinutes > 0)
              => ~(u1.date <= u2.date
                   /\ u2.date < u1.date + ClaimLen(runLog[i], u1))

----------------------------------------------------------------------------
IsResizeStart == resizingTask = NoResize /\ resizingTask' # NoResize

\* a resize is released after the pointer moved and came back to where it
\* went down
IsCommitAtDeltaZero ==
    /\ resizingTask # NoResize
    /\ resizingTask' = NoResize
    /\ currentResizeHeight # NullHeight
    /\ mouseY = resizingTask.startY

ResizedTask(ps) == EntryOf(ps, resizingTask.projectId, resizingTask.taskId).task

\* C22: a resize starts from a height equal to the task's estimatedMinutes,
\* so a drag that ends at net pointer delta 0 on a task whose duration is a
\* multiple of 15, at least 15, leaves estimatedMinutes as it was.
C22_ZeroDeltaKeepsDuration ==
    [][/\ IsResizeStart
          => resizingTask'.startHeight
                = EntryOf(projects, resizingTask'.projectId,
                          resizingTask'.taskId).task.estimatedMinutes
       /\ (/\ IsCommitAtDeltaZero
           /\ ResizedTask(projects).estimatedMinutes % 15 = 0
           /\ ResizedTask(projects).estimatedMinutes >= 15)
          => ResizedTask(projects').estimatedMinutes
                = ResizedTask(projects).estimatedMinutes]_vars

\* the same for the tasks drawn at their own height: 30 minutes or more
C22_ZeroDeltaKeepsLongDuration ==
    [][/\ (IsResizeStart
           /\ EntryOf(projects, resizingTask'.projectId,
                      resizingTask'.taskId).task.estimatedMinutes >= MinRenderHeight)
          => resizingTask'.startHeight
                = EntryOf(projects, resizingTask'.projectId,
                          resizingTask'.taskId).task.estimatedMinutes
       /\ (/\ IsCommitAtDeltaZero
           /\ ResizedTask(projects).estimatedMinutes % 15 = 0
           /\ ResizedTask(projects).estimatedMinutes >= MinRenderHeight)
          => ResizedTask(projects').estimatedMinutes
                = ResizedTask(projects).estimatedMinutes]_vars

----------------------------------------------------------------------------
\* C23: the complete control of a board card, shown for a task that is not
\* COMPLETED, sets that task's status to COMPLETED, from TODO and from
\* IN_PROGRESS alike, and changes no other task.
C23_BoardCompleteCompletes ==
    [][IsCallStep("boardComplete")
       => /\ EntryOf(projects, lastCall'.projectId, lastCall'.taskId).task.status
                # "COMPLETED"
          /\ projects' = updateTask(projects, lastCall'.projectId, lastCall'.taskId,
                                    [status |-> "COMPLETED"])]_vars

\* the part of C23 about the other tasks: only the status of the card's task
\* is written
C23_BoardCompleteTouchesOneTask ==
    [][IsCallStep("boardComplete")
       => \E st \in {"TODO", "IN_PROGRESS", "COMPLETED"} :
             projects' = updateTask(projects, lastCall'.projectId, lastCall'.taskId,
                                    [status |-> st])]_vars

----------------------------------------------------------------------------
\* C24: when a run applies its updates, only tasks that are unscheduled and
\* not completed at that moment get an instant: a task the user scheduled by
\* a drop, or that was completed, while the run was pending keeps the
\* scheduledDate it has.
C24_AssignsOnlyUnscheduled ==
    [][Len(runLog') > Len(runLog)
       => \A e \in Range(AllEntries(projects)) :
             (e.task.scheduledDate # Undefined \/ e.task.status = "COMPLETED")
             => EntryOf(projects', e.projectId, e.task.id).task.scheduledDate
                   = e.task.scheduledDate]_vars

----------------------------------------------------------------------------
(* The focus timer *)

\* C25: in every reachable state of the timer, after any sequence of start,
\* pause, resume, switchContext, handleStartFocus and session completion,
\* isActive is true exactly when endTime is not null.
C25_ActiveIffEndTime ==
    timerState.isActive <=> timerState.endTime # Null

\* a timer that was started and then paused: a start time but no end time
C25_Witness ==
    /\ ~timerState.isActive
    /\ timerState.startTime # Null
    /\ timerState.endTime = Null
    /\ timerState.subtaskId = "a"

\* C26: while the timer is active the focus context is locked to it: once
\* the effects have run, the active context names the project and subtask of
\* timerState, whatever the user did, starting focus on another task from
\* the Planner included.
C26_ContextLockedToTimer ==
    timerState.isActive
    => /\ activeContextProject.id = timerState.projectId
       /\ activeContextSubtask.id = timerState.subtaskId

\* the same without the focus button of the Planner: after the steps of
\* FocusTimer, the navigation and the clock the context is the timer's
C26_LockedInsideFocusTimer ==
    [][(timerState'.isActive
        /\ (timerState.isActive
            => /\ activeContextProject.id = timerState.projectId
               /\ activeContextSubtask.id = timerState.subtaskId)
        /\ ~(view = "PLANNER" /\ view' # "PLANNER"
             /\ activeContextSubtask' # activeContextSubtask))
       => /\ activeContextProject'.id = timerState'.projectId
          /\ activeContextSubtask'.id = timerState'.subtaskId]_vars

TimerTarget(ts) == <<ts.projectId, ts.subtaskId>>

\* C28: the recorded start of a session belongs to its own task: whenever
\* the target of the timer changes while the timer is inactive, startTime is
\* null afterwards.
C28_RetargetClearsStart ==
    [][(/\ ~timerState.isActive
        /\ ~timerState'.isActive
        /\ TimerTarget(timerState') # TimerTarget(timerState))
       => timerState'.startTime = Null]_vars

\* the same for the task selector of FocusTimer alone
C28_SwitchContextClearsStart ==
    [][(/\ view = "FOCUS" /\ view' = "FOCUS"
        /\ ~timerState.isActive
        /\ ~timerState'.isActive
        /\ TimerTarget(timerState') # TimerTarget(timerState))
       => timerState'.startTime = Null]_vars

FocusRow(e) ==
    [projectId |-> e.projectId, id |-> e.task.id, status |-> e.task.status,
     estimatedMinutes |-> e.task.estimatedMinutes,
     actualMinutes |-> e.task.actualMinutes,
     children |-> [i \in 1..Len(e.task.subtasks) |-> e.task.subtasks[i].id]]

FocusRows(ps) == [i \in 1..Len(AllEntries(ps)) |-> FocusRow(AllEntries(ps)[i])]

\* C27: every session completion, finished or interrupted, puts exactly one
\* record in front of the history and leaves the older records as they are,
\* resets the timer to its default, and, when the session names a project
\* and a subtask, adds actualDurationMinutes to that task's actualMinutes and
\* marks it COMPLETED only if the session completed; no other task changes.
C27_SessionCompletion ==
    [][Len(history') # Len(history)
       => LET session == Head(history')
              named == session.projectId # "" /\ session.subtaskId # ""
          IN  /\ Tail(history') = history
              /\ ~timerState'.isActive
              /\ timerState'.startTime = Null
              /\ timerState'.endTime = Null
              /\ timerState'.duration = 25 * 60
              /\ timerState'.projectId = "general"
              /\ timerState'.subtaskId = ""
              /\ Len(FocusRows(projects')) = Len(FocusRows(projects))
              /\ \A i \in 1..Len(FocusRows(projects)) :
                    LET row == FocusRows(projects)[i]
                    IN  IF named /\ row.projectId = session.projectId
                                 /\ row.id = session.subtaskId
                        THEN FocusRows(projects')[i] =
                                [row EXCEPT
                                   !.actualMinutes = @ + session.actualDurationMinutes,
                                   !.status = IF session.completed THEN "COMPLETED" ELSE @]
                        ELSE FocusRows(projects')[i] = row]_vars

\* a session on task a was interrupted after ten minutes: a has ten actual
\* minutes and is still TODO
C27_Witness ==
    /\ Len(history) = 2
    /\ ~Head(history).completed
    /\ Head(history).subtaskId = "a"
    /\ Head(history).actualDurationMinutes = 10
    /\ \E i \in 1..Len(FocusRows(projects)) :
          /\ FocusRows(projects)[i].id = "a"
          /\ FocusRows(projects)[i].actualMinutes = 10
          /\ FocusRows(projects)[i].status = "TODO"

----------------------------------------------------------------------------
Occurrences(seq, x) == Cardinality({i \in 1..Len(seq) : seq[i] = x})

\* C29: a calendar provider is connected at most once: after any
\* interleaving of connect clicks and completions of their timers, each
\* provider name occurs at most once in connectedApps and at most one
\* project with id ext-<provider> exists.
C29_ConnectedAtMostOnce ==
    \A provider \in Providers :
        /\ Occurrences(connectedApps, provider.name) <= 1
        /\ Cardinality({i \in 1..Len(projects) :
                           projects[i].id = "ext-" \o toLowerCase(provider.name)}) <= 1

----------------------------------------------------------------------------
\* C30: the sidebar counters agree with the lists they label: counts.inbox is
\* the number of tasks the INBOX filter shows, and likewise counts.today and
\* counts.upcoming for TODAY and UPCOMING, also when a completed parent has
\* children that are not completed.
C30_CountersMatchLists ==
    lastCall.op = "sidebar"
    => /\ sidebar.inbox = sidebar.inboxList
       /\ sidebar.today = sidebar.todayList
       /\ sidebar.upcoming = sidebar.upcomingList

\* the same for the stores in which no completed task has children
C30_CountersMatchWithoutCompletedParents ==
    (/\ lastCall.op = "sidebar"
     /\ \A e \in Range(AllEntries(projects)) :
           e.task.status = "COMPLETED" => e.task.subtasks = <<>>)
    => /\ sidebar.inbox = sidebar.inboxList
       /\ sidebar.today = sidebar.todayList
       /\ sidebar.upcoming = sidebar.upcomingList

====
